---- MODULE Spec2Model ----
(***************************************************************************)
(* A model of the data-pipe CDC pipeline: Pipeline.Run (pkg/pipeline) with *)
(* its five workers and the Source / Sink adapters it drives, and the      *)
(* startup sequence of cmd/data-pipe (main and performInitialSync).        *)
(*                                                                         *)
(* Go channels made with make(chan T) are unbuffered: a send and the       *)
(* matching receive are one joint step of the sender and the receiver.     *)
(* A worker that has decided to send sits in a "send" position until a     *)
(* receiver is ready, which is how blocking is visible in the model.       *)
(*                                                                         *)
(* The FieldMapper transformer (pkg/transform) is modelled on its own:     *)
(* its constructor and one Transform call, rule by rule, over bounded sets *)
(* of rule lists and event data.  The MongoDB change capture and the       *)
(* PostgreSQL sink (pkg/source, pkg/sink) are modelled on their own as     *)
(* well: the change documents of a collection, their conversion to events, *)
(* and Write with its batch and the target table.                          *)
(***************************************************************************)
EXTENDS Integers, Sequences, FiniteSets, TLC

\* Longest stream of change events the live Source emits in one Run.
MaxEvents == 3
\* Longest live stream followed after the startup sequence.
MaxLive == 1
\* Most documents the source collection holds when the backfill queries it.
MaxDocs == 2
\* Cursor (timestamp) values range over 1..MaxTs.
MaxTs == 2
\* Most errors each adapter puts on its error stream in one Run.
MaxErrors == 1
\* Longest rule list (config.Mappings) of a FieldMapper.
MaxRules == 2

\* How many events the source emits in SpecSink.
MaxChanges == 4

\* batchSize of the PostgreSQLSink, scaled down from 100 (postgresql.go line 36).
BatchSize == 2

VARIABLES
    \* ---- the shared context and the collaborators handed to pipeline.New
    cancelled,           \* ctx.Done() is closed
    streamLen,           \* how many changes the live change stream can deliver at most
    transformer,         \* "nil" or "set": p.transformer
    srcKind,             \* how the Source observes ctx: "select" (while waiting and while
                         \* handing off), "stream" (only while waiting for a change), "deaf" (never)
    sinkKind,            \* "draining": the Sink ranges over its input; "blocking": it never takes an event
    \* ---- Pipeline.Run
    runPc,               \* position of Run
    runErr,              \* "none" while running, then "nil" or "err"
    srcConn, sinkConn,   \* outcome of the Connect of this Run: "none", "ok", "fail"
    calls,               \* how often Run invoked each adapter method
    sourceConnected, sinkConnected,   \* p.sourceConnected, p.sinkConnected
    \* ---- the Source's read worker and its two streams
    srcPc, sawCancel, nEmitted, nSrcErr, eventsClosed, sourceErrorsClosed,
    \* ---- the transform worker and transformedEvents
    tPc, tHeld, dropped, transformedClosed,
    \* ---- the Sink's write worker and its error stream
    sinkPc, written, nSinkErr, sinkErrorsClosed,
    \* ---- the two error-drain workers
    srcDrainPc, sinkDrainPc, logged

VARIABLES
    \* ---- the FieldMapper (pkg/transform): its configuration, ...
    fmPc,                \* "off", "config", "ready", "rules", "includeAll", "returned"
    Mappings,            \* config.Mappings: a sequence of FieldMapping records
    IncludeAll, ExcludeFields, StrictMode,   \* the rest of FieldMapperConfig
    extractors,          \* f.extractors: source name -> extract pattern
    \* ---- ... and one Transform call
    eventData,           \* event.Data of the event passed to Transform
    newData,             \* newData
    errors,              \* len(errors): the non-fatal issues recorded
    ruleIdx,             \* index of the mapping the range loop handles next
    wrote,               \* indices of the mappings that reached newData[destName] = ...
    outcomes,            \* per mapping handled so far: how its pass of the loop ended
    ruleData,            \* newData as the rule loop left it
    resultData,          \* Data of the event Transform returned
    eventFields,         \* the other fields of the event passed to Transform
    resultFields,        \* the other fields of the event Transform returned
    transformErr         \* the error Transform returned: "none" (no return yet), "nil", "err"

VARIABLES
    \* ---- MongoDB change capture and PostgreSQLSink.Write (pkg/source, pkg/sink)
    collection,          \* the MongoDB collection: _id -> name
    captured,            \* the events the source emitted so far, each with the _id
                         \* of the document it is about
    inputClosed,         \* the channel Write ranges over has been closed
    wrPc,                \* Write's worker: "off", "range", "flush", "error", "closed"
    batch,               \* batch, as indices into captured
    tableRows,           \* the target table: _id -> row
    received,            \* how many events Write took from its input
    flushed,             \* how many events were passed to a writeBatch call
    applied,             \* the events of the committed batches, in order
    sentErrors,          \* how many errors Write's error stream delivered
    dbFailures           \* how many writeBatch calls the database failed

pgVars == <<collection, captured, inputClosed, wrPc, batch, tableRows, received,
            flushed, applied, sentErrors, dbFailures>>

fmConfigVars == <<Mappings, IncludeAll, ExcludeFields, StrictMode, extractors>>
fmCallVars   == <<eventData, newData, errors, ruleIdx, wrote, outcomes, ruleData,
                  resultData, eventFields, resultFields, transformErr>>
fmVars       == <<fmPc, fmConfigVars, fmCallVars>>

cfgVars   == <<transformer, srcKind, sinkKind, streamLen, fmVars, pgVars>>
runVars   == <<runPc, runErr, srcConn, sinkConn, calls, sourceConnected, sinkConnected>>
srcVars   == <<srcPc, sawCancel, nEmitted, nSrcErr, eventsClosed, sourceErrorsClosed>>
trVars    == <<tPc, tHeld, dropped, transformedClosed>>
sinkVars  == <<sinkPc, written, nSinkErr, sinkErrorsClosed>>
drainVars == <<srcDrainPc, sinkDrainPc, logged>>
pipeVars  == <<cancelled, cfgVars, runVars, srcVars, trVars, sinkVars, drainVars>>

VARIABLES
    \* ---- main and performInitialSync (cmd/data-pipe)
    mainPc,              \* position of main, performInitialSync included
    InitialSync, ForceInitialSync, TimestampField,   \* cfg.Pipeline.Sync
    syncErr,             \* what performInitialSync returned: "none", "nil", "err"
    syncConn,            \* outcome of the two Connect calls of performInitialSync
    probes,              \* how often the sink was asked IsTableEmpty / GetLatestTimestamp,
                         \* and what the cursor lookup gave
    sinkTable,           \* the cursor column of the sink table's rows, as the sink's queries saw it
    fromTimestamp,       \* <<>> for nil, <<v>> for the cursor value v
    \* ---- the backfill read worker (MongoDBSource.PerformInitialSync)
    bfSrcPc, docTs, bfPending, bfDoc, bfEmitted, bfSrcErrs, bfEventsClosed, bfErrorsClosed,
    \* ---- the backfill transform worker
    bfTPc, bfHeld, bfDropped, bfTransformedClosed,
    \* ---- the sink's write worker during the backfill
    bfSinkPc, bfWritten, bfSinkErrs, bfSinkErrorsClosed,
    \* ---- the two error collectors of performInitialSync
    bfSrcDrainPc, bfSinkDrainPc, errorOccurred

mainVars    == <<mainPc, InitialSync, ForceInitialSync, TimestampField, syncErr>>
syncVars    == <<syncConn, probes, sinkTable, fromTimestamp>>
bfSrcVars   == <<bfSrcPc, docTs, bfPending, bfDoc, bfEmitted, bfSrcErrs, bfEventsClosed, bfErrorsClosed>>
bfTrVars    == <<bfTPc, bfHeld, bfDropped, bfTransformedClosed>>
bfSinkVars  == <<bfSinkPc, bfWritten, bfSinkErrs, bfSinkErrorsClosed>>
bfDrainVars == <<bfSrcDrainPc, bfSinkDrainPc, errorOccurred>>
bfVars      == <<bfSrcVars, bfTrVars, bfSinkVars, bfDrainVars>>
startVars   == <<mainVars, syncVars, bfVars>>

vars == <<pipeVars, startVars>>

(***************************************************************************)
(* Events.  The i-th event a Source emits carries id i; the tag tells      *)
(* whether a Transformer has rewritten it.                                  *)
(***************************************************************************)
NoEvent == [id |-> 0, tag |-> "none"]

Event(i) == [id |-> i, tag |-> "raw"]

\* The Transformer's result on an event it accepts (the test's MockTransformer
\* rewrites the event; the rewritten event differs from its input).
Transform(e) == [e EXCEPT !.tag = "PREFIX_"]

ZeroCalls ==
    [srcConnect |-> 0, sinkConnect |-> 0, srcClose |-> 0, sinkClose |-> 0,
     read |-> 0, write |-> 0]

PipeInit ==
    /\ cancelled = FALSE
    /\ transformer \in {"nil", "set"}
    /\ srcKind \in {"select", "stream", "deaf"}
    /\ sinkKind \in {"draining", "blocking"}
    /\ runPc = "idle"
    /\ runErr = "none"
    /\ srcConn = "none"
    /\ sinkConn = "none"
    /\ calls = ZeroCalls
    /\ sourceConnected = FALSE
    /\ sinkConnected = FALSE
    /\ srcPc = "off"
    /\ sawCancel = FALSE
    /\ nEmitted = 0
    /\ nSrcErr = 0
    /\ eventsClosed = FALSE
    /\ sourceErrorsClosed = FALSE
    /\ tPc = "off"
    /\ tHeld = NoEvent
    /\ dropped = {}
    /\ transformedClosed = FALSE
    /\ sinkPc = "off"
    /\ written = <<>>
    /\ nSinkErr = 0
    /\ sinkErrorsClosed = FALSE
    /\ srcDrainPc = "off"
    /\ sinkDrainPc = "off"
    /\ logged = [source |-> 0, sink |-> 0]

(***************************************************************************)
(* The shared context is cancelled (main's signal handler calls cancel()). *)
(***************************************************************************)
Cancel ==
    /\ ~cancelled
    /\ cancelled' = TRUE
    /\ UNCHANGED startVars
    /\ UNCHANGED <<cfgVars, runVars, srcVars, trVars, sinkVars, drainVars>>

(***************************************************************************)
(* Pipeline.Run, statement by statement.                                   *)
(***************************************************************************)
\* Run is entered.
RunEnter ==
    /\ mainPc = "run"
    /\ runPc = "idle"
    /\ runPc' = "connectSource"
    /\ UNCHANGED <<runErr, srcConn, sinkConn, calls, sourceConnected, sinkConnected>>
    /\ UNCHANGED startVars
    /\ UNCHANGED <<cancelled, cfgVars, srcVars, trVars, sinkVars, drainVars>>

\* A Run that goes on to the Sink after a failed Source.Connect.
FailedSourceConnectFallsThrough == "connectSink"

\* Where Run goes when p.source.Connect fails (lines 107-113): it returns;
\* nothing is deferred yet.
FailedSourceConnectNext == "returned"

\* A Run that returns from a failed Sink.Connect past its deferred close.
FailedSinkConnectNoDefer == "returned"

\* Where Run goes when p.sink.Connect fails (lines 133-139): it returns
\* through the deferred Source close of lines 121-129.
FailedSinkConnectNext == "closeSource"

\* A Run that reports what its drains logged.
WaitResultFromLog(lg) == IF lg.source + lg.sink > 0 THEN "err" ELSE "nil"

\* What Run returns after wg.Wait() (lines 221-223), whatever the drains logged.
WaitResult(lg) == "nil"

\* p.source.Connect(ctx): on failure Run returns the error at once (nothing
\* is deferred yet); on success sourceConnected is set and the Close deferred.
RunConnectSource ==
    /\ runPc = "connectSource"
    /\ calls' = [calls EXCEPT !.srcConnect = @ + 1]
    /\ \E ok \in BOOLEAN :
         IF ok
         THEN /\ srcConn' = "ok"
              /\ sourceConnected' = TRUE
              /\ runPc' = "connectSink"
              /\ runErr' = runErr
         ELSE /\ srcConn' = "fail"
              /\ sourceConnected' = sourceConnected
              /\ runPc' = FailedSourceConnectNext
              /\ runErr' = "err"
    /\ UNCHANGED <<sinkConn, sinkConnected>>
    /\ UNCHANGED startVars
    /\ UNCHANGED <<cancelled, cfgVars, srcVars, trVars, sinkVars, drainVars>>

\* p.sink.Connect(ctx): on failure Run returns the error through the deferred
\* Source close; on success sinkConnected is set and the Close deferred.
RunConnectSink ==
    /\ runPc = "connectSink"
    /\ calls' = [calls EXCEPT !.sinkConnect = @ + 1]
    /\ \E ok \in BOOLEAN :
         IF ok
         THEN /\ sinkConn' = "ok"
              /\ sinkConnected' = TRUE
              /\ runPc' = "read"
              /\ runErr' = runErr
         ELSE /\ sinkConn' = "fail"
              /\ sinkConnected' = sinkConnected
              /\ runPc' = FailedSinkConnectNext
              /\ runErr' = "err"
    /\ UNCHANGED <<srcConn, sourceConnected>>
    /\ UNCHANGED startVars
    /\ UNCHANGED <<cancelled, cfgVars, srcVars, trVars, sinkVars, drainVars>>

\* events, sourceErrors := p.source.Read(ctx): the Source starts its worker.
RunRead ==
    /\ runPc = "read"
    /\ calls' = [calls EXCEPT !.read = @ + 1]
    /\ srcPc' = "loop"
    /\ runPc' = "startTransform"
    /\ UNCHANGED <<runErr, srcConn, sinkConn, sourceConnected, sinkConnected>>
    /\ UNCHANGED <<sawCancel, nEmitted, nSrcErr, eventsClosed, sourceErrorsClosed>>
    /\ UNCHANGED startVars
    /\ UNCHANGED <<cancelled, cfgVars, trVars, sinkVars, drainVars>>

\* transformedEvents := make(chan Event); go func() { ... }()
RunStartTransform ==
    /\ runPc = "startTransform"
    /\ tPc' = "recv"
    /\ runPc' = "write"
    /\ UNCHANGED <<runErr, srcConn, sinkConn, calls, sourceConnected, sinkConnected>>
    /\ UNCHANGED <<tHeld, dropped, transformedClosed>>
    /\ UNCHANGED startVars
    /\ UNCHANGED <<cancelled, cfgVars, srcVars, sinkVars, drainVars>>

\* sinkErrors := p.sink.Write(ctx, transformedEvents): the Sink starts its worker.
RunWrite ==
    /\ runPc = "write"
    /\ calls' = [calls EXCEPT !.write = @ + 1]
    /\ sinkPc' = "recv"
    /\ runPc' = "startDrains"
    /\ UNCHANGED <<runErr, srcConn, sinkConn, sourceConnected, sinkConnected>>
    /\ UNCHANGED <<written, nSinkErr, sinkErrorsClosed>>
    /\ UNCHANGED startVars
    /\ UNCHANGED <<cancelled, cfgVars, srcVars, trVars, drainVars>>

\* A Run that starts the drain of the source errors only.
RunStartSourceDrainOnly ==
    /\ runPc = "startDrains"
    /\ srcDrainPc' = "recv"
    /\ sinkDrainPc' = "done"
    /\ runPc' = "wait"
    /\ UNCHANGED logged
    /\ UNCHANGED <<runErr, srcConn, sinkConn, calls, sourceConnected, sinkConnected>>
    /\ UNCHANGED startVars
    /\ UNCHANGED <<cancelled, cfgVars, srcVars, trVars, sinkVars>>

\* wg.Add(2) and the two error-drain goroutines.
RunStartDrains ==
    /\ runPc = "startDrains"
    /\ srcDrainPc' = "recv"
    /\ sinkDrainPc' = "recv"
    /\ runPc' = "wait"
    /\ UNCHANGED logged
    /\ UNCHANGED <<runErr, srcConn, sinkConn, calls, sourceConnected, sinkConnected>>
    /\ UNCHANGED startVars
    /\ UNCHANGED <<cancelled, cfgVars, srcVars, trVars, sinkVars>>

\* A wg.Wait() that waits for the source error drain only.
RunWaitSourceDrainOnly ==
    /\ runPc = "wait"
    /\ srcDrainPc = "done"
    /\ runErr' = WaitResult(logged)
    /\ runPc' = "closeSink"
    /\ UNCHANGED <<srcConn, sinkConn, calls, sourceConnected, sinkConnected>>
    /\ UNCHANGED startVars
    /\ UNCHANGED <<cancelled, cfgVars, srcVars, trVars, sinkVars, drainVars>>

\* wg.Wait() returns once both drains have called wg.Done(); Run returns nil
\* and its deferred closes run, the Sink's first.
\* A health check satisfied by either connection.
IsHealthyEither == sourceConnected \/ sinkConnected

\* IsHealthy(): p.sourceConnected && p.sinkConnected, read under the lock.
IsHealthy == sourceConnected /\ sinkConnected

\* GetStatus(): the flags and the two fields computed from them.
GetStatus ==
    [Healthy         |-> sourceConnected /\ sinkConnected,
     PipelineRunning |-> sourceConnected /\ sinkConnected,
     SourceConnected |-> sourceConnected,
     SinkConnected   |-> sinkConnected]

\* A Run that goes on to its deferred closes without wg.Wait().
RunWithoutWait ==
    /\ runPc = "wait"
    /\ runErr' = WaitResult(logged)
    /\ runPc' = "closeSink"
    /\ UNCHANGED <<srcConn, sinkConn, calls, sourceConnected, sinkConnected>>
    /\ UNCHANGED startVars
    /\ UNCHANGED <<cancelled, cfgVars, srcVars, trVars, sinkVars, drainVars>>

RunWait ==
    /\ runPc = "wait"
    /\ srcDrainPc = "done"
    /\ sinkDrainPc = "done"
    /\ runErr' = WaitResult(logged)
    /\ runPc' = "closeSink"
    /\ UNCHANGED <<srcConn, sinkConn, calls, sourceConnected, sinkConnected>>
    /\ UNCHANGED startVars
    /\ UNCHANGED <<cancelled, cfgVars, srcVars, trVars, sinkVars, drainVars>>

\* The deferred func of lines 147-155: p.sink.Close(), sinkConnected = false.
RunCloseSink ==
    /\ runPc = "closeSink"
    /\ calls' = [calls EXCEPT !.sinkClose = @ + 1]
    /\ sinkConnected' = FALSE
    /\ runPc' = "closeSource"
    /\ UNCHANGED <<runErr, srcConn, sinkConn, sourceConnected>>
    /\ UNCHANGED startVars
    /\ UNCHANGED <<cancelled, cfgVars, srcVars, trVars, sinkVars, drainVars>>

\* The deferred func of lines 121-129: p.source.Close(), sourceConnected = false.
RunCloseSource ==
    /\ runPc = "closeSource"
    /\ calls' = [calls EXCEPT !.srcClose = @ + 1]
    /\ sourceConnected' = FALSE
    /\ runPc' = "returned"
    /\ UNCHANGED <<runErr, srcConn, sinkConn, sinkConnected>>
    /\ UNCHANGED startVars
    /\ UNCHANGED <<cancelled, cfgVars, srcVars, trVars, sinkVars, drainVars>>

(***************************************************************************)
(* The Source's read worker (the goroutine Read starts).  It waits for the *)
(* next change, hands an event to the events stream or an error to the     *)
(* errors stream, and on leaving closes errors, then events (the deferred  *)
(* closes run last-in first-out).                                          *)
(***************************************************************************)
\* The next change arrives and decodes (an event to send), fails to decode
\* (an error to send), or the stream ends, with or without a final error.
SourceStep ==
    /\ srcPc = "loop"
    /\ \/ nEmitted < streamLen /\ srcPc' = "sendEvent"
       \/ nSrcErr < MaxErrors /\ srcPc' \in {"sendError", "sendLastError"}
       \/ srcPc' = "closeErrors"
    /\ UNCHANGED <<sawCancel, nEmitted, nSrcErr, eventsClosed, sourceErrorsClosed>>
    /\ UNCHANGED startVars
    /\ UNCHANGED <<cancelled, cfgVars, runVars, trVars, sinkVars, drainVars>>

\* A cooperating Source sees ctx.Done() while it waits for a change or for
\* its hand-off, and leaves; the change stream reports the cancellation as a
\* final error when it has one left to report.
\* A change stream opened on a context that is never cancelled.
ObservesCancelOnlySelect(kind, pc) == kind = "select" /\ pc \in {"loop", "sendEvent"}

\* Where each kind of Source watches ctx.Done(): in the select around its
\* hand-off and its wait, or only in stream.Next(ctx).
ObservesCancel(kind, pc) ==
    \/ kind = "select" /\ pc \in {"loop", "sendEvent"}
    \/ kind = "stream" /\ pc = "loop"

SourceObserveCancel ==
    /\ cancelled
    /\ ObservesCancel(srcKind, srcPc)
    /\ \/ srcPc' = "closeErrors"
       \/ srcPc = "loop" /\ nSrcErr < MaxErrors /\ srcPc' = "sendLastError"
    /\ sawCancel' = TRUE
    /\ UNCHANGED <<nEmitted, nSrcErr, eventsClosed, sourceErrorsClosed>>
    /\ UNCHANGED startVars
    /\ UNCHANGED <<cancelled, cfgVars, runVars, trVars, sinkVars, drainVars>>

\* An events stream with room for one more event.
TransformReadyWhileSending == tPc \in {"recv", "send"}

\* The transform worker is in its receive on events.
TransformReady == tPc = "recv"

\* events <- event, received by the transform worker's range loop.
SourceSendEvent ==
    /\ srcPc = "sendEvent"
    /\ TransformReady
    /\ nEmitted' = nEmitted + 1
    /\ srcPc' = "loop"
    /\ tHeld' = Event(nEmitted + 1)
    /\ tPc' = "transform"
    /\ UNCHANGED <<sawCancel, nSrcErr, eventsClosed, sourceErrorsClosed>>
    /\ UNCHANGED <<dropped, transformedClosed>>
    /\ UNCHANGED startVars
    /\ UNCHANGED <<cancelled, cfgVars, runVars, sinkVars, drainVars>>

\* errors <- err, received and logged by the source error drain.
SourceSendError ==
    /\ srcPc \in {"sendError", "sendLastError"}
    /\ srcDrainPc = "recv"
    /\ nSrcErr' = nSrcErr + 1
    /\ srcPc' = IF srcPc = "sendError" THEN "loop" ELSE "closeErrors"
    /\ logged' = [logged EXCEPT !.source = @ + 1]
    /\ UNCHANGED <<sawCancel, nEmitted, eventsClosed, sourceErrorsClosed>>
    /\ UNCHANGED <<srcDrainPc, sinkDrainPc>>
    /\ UNCHANGED startVars
    /\ UNCHANGED <<cancelled, cfgVars, runVars, trVars, sinkVars>>

\* defer close(errors)
SourceCloseErrors ==
    /\ srcPc = "closeErrors"
    /\ sourceErrorsClosed' = TRUE
    /\ srcPc' = "closeEvents"
    /\ UNCHANGED <<sawCancel, nEmitted, nSrcErr, eventsClosed>>
    /\ UNCHANGED startVars
    /\ UNCHANGED <<cancelled, cfgVars, runVars, trVars, sinkVars, drainVars>>

\* defer close(events)
SourceCloseEvents ==
    /\ srcPc = "closeEvents"
    /\ eventsClosed' = TRUE
    /\ srcPc' = "done"
    /\ UNCHANGED <<sawCancel, nEmitted, nSrcErr, sourceErrorsClosed>>
    /\ UNCHANGED startVars
    /\ UNCHANGED <<cancelled, cfgVars, runVars, trVars, sinkVars, drainVars>>

(***************************************************************************)
(* The transform worker of Run (lines 162-192).                            *)
(***************************************************************************)
\* The loop body up to the hand-off: with a Transformer, a failed Transform
\* drops the event (continue) and a successful one replaces it.
\* A worker that forgets event = transformed.
ForwardedUntransformed(e) == e

\* The event the worker hands on after a successful pass (lines 170-183).
Forwarded(e) == IF transformer # "nil" THEN Transform(e) ELSE e

\* A worker without the continue of line 177.
AfterTransformNoContinue(e, err) ==
    [held |-> IF err THEN e ELSE Forwarded(e), pc |-> "send"]

\* The worker after the Transformer's answer (err: it returned an error):
\* continue with the next event, or go on to the hand-off.
AfterTransform(e, err) ==
    IF err
    THEN [held |-> NoEvent, pc |-> "recv"]
    ELSE [held |-> Forwarded(e), pc |-> "send"]

TransformApply ==
    /\ tPc = "transform"
    /\ \E err \in IF transformer # "nil" THEN BOOLEAN ELSE {FALSE} :
         /\ dropped' = IF err THEN dropped \cup {tHeld.id} ELSE dropped
         /\ tHeld' = AfterTransform(tHeld, err).held
         /\ tPc' = AfterTransform(tHeld, err).pc
    /\ UNCHANGED transformedClosed
    /\ UNCHANGED startVars
    /\ UNCHANGED <<cancelled, cfgVars, runVars, srcVars, sinkVars, drainVars>>

\* The Sink's write worker is in its receive on transformedEvents.
SinkReady == sinkPc = "recv" /\ sinkKind = "draining"

\* A transform stage that hands its event over ahead of the ones the Sink
\* already took.
TransformSendAhead ==
    /\ tPc = "send"
    /\ SinkReady
    /\ written' = <<tHeld>> \o written
    /\ tHeld' = NoEvent
    /\ tPc' = "recv"
    /\ \/ sinkPc' = "recv"
       \/ nSinkErr < MaxErrors /\ sinkPc' = "sendError"
    /\ UNCHANGED <<dropped, transformedClosed>>
    /\ UNCHANGED <<nSinkErr, sinkErrorsClosed>>
    /\ UNCHANGED startVars
    /\ UNCHANGED <<cancelled, cfgVars, runVars, srcVars, drainVars>>

\* transformedEvents <- event, received by the Sink's range loop; the Sink
\* may find a write error to report after taking the event.
TransformSend ==
    /\ tPc = "send"
    /\ SinkReady
    /\ written' = Append(written, tHeld)
    /\ tHeld' = NoEvent
    /\ tPc' = "recv"
    /\ \/ sinkPc' = "recv"
       \/ nSinkErr < MaxErrors /\ sinkPc' = "sendError"
    /\ UNCHANGED <<dropped, transformedClosed>>
    /\ UNCHANGED <<nSinkErr, sinkErrorsClosed>>
    /\ UNCHANGED startVars
    /\ UNCHANGED <<cancelled, cfgVars, runVars, srcVars, drainVars>>

\* events is closed and drained: the range loop ends and the deferred
\* close(transformedEvents) runs.
TransformClose ==
    /\ tPc = "recv"
    /\ eventsClosed
    /\ transformedClosed' = TRUE
    /\ tPc' = "done"
    /\ UNCHANGED <<tHeld, dropped>>
    /\ UNCHANGED startVars
    /\ UNCHANGED <<cancelled, cfgVars, runVars, srcVars, sinkVars, drainVars>>

(***************************************************************************)
(* The Sink's write worker (the goroutine Write starts).                   *)
(***************************************************************************)
\* errors <- err, received and logged by the sink error drain.
SinkSendError ==
    /\ sinkPc \in {"sendError", "sendLastError"}
    /\ sinkDrainPc = "recv"
    /\ nSinkErr' = nSinkErr + 1
    /\ sinkPc' = IF sinkPc = "sendError" THEN "recv" ELSE "closeErrors"
    /\ logged' = [logged EXCEPT !.sink = @ + 1]
    /\ UNCHANGED <<written, sinkErrorsClosed>>
    /\ UNCHANGED <<srcDrainPc, sinkDrainPc>>
    /\ UNCHANGED startVars
    /\ UNCHANGED <<cancelled, cfgVars, runVars, srcVars, trVars>>

\* The input stream is closed: the range loop ends; writing what is left may
\* fail with one more error.
SinkFinish ==
    /\ SinkReady
    /\ transformedClosed
    /\ \/ sinkPc' = "closeErrors"
       \/ nSinkErr < MaxErrors /\ sinkPc' = "sendLastError"
    /\ UNCHANGED <<written, nSinkErr, sinkErrorsClosed>>
    /\ UNCHANGED startVars
    /\ UNCHANGED <<cancelled, cfgVars, runVars, srcVars, trVars, drainVars>>

\* defer close(errors)
SinkCloseErrors ==
    /\ sinkPc = "closeErrors"
    /\ sinkErrorsClosed' = TRUE
    /\ sinkPc' = "done"
    /\ UNCHANGED <<written, nSinkErr>>
    /\ UNCHANGED startVars
    /\ UNCHANGED <<cancelled, cfgVars, runVars, srcVars, trVars, drainVars>>

(***************************************************************************)
(* The two error drains of Run (lines 201-219).                            *)
(***************************************************************************)
\* range sourceErrors ends; wg.Done().
SourceDrainDone ==
    /\ srcDrainPc = "recv"
    /\ sourceErrorsClosed
    /\ srcDrainPc' = "done"
    /\ UNCHANGED <<sinkDrainPc, logged>>
    /\ UNCHANGED startVars
    /\ UNCHANGED <<cancelled, cfgVars, runVars, srcVars, trVars, sinkVars>>

\* range sinkErrors ends; wg.Done().
SinkDrainDone ==
    /\ sinkDrainPc = "recv"
    /\ sinkErrorsClosed
    /\ sinkDrainPc' = "done"
    /\ UNCHANGED <<srcDrainPc, logged>>
    /\ UNCHANGED startVars
    /\ UNCHANGED <<cancelled, cfgVars, runVars, srcVars, trVars, sinkVars>>

(***************************************************************************)
(* The startup sequence: main and performInitialSync (cmd/data-pipe).      *)
(***************************************************************************)
NoTimestamp == <<>>

\* The values a row's cursor column can hold: NULL (<<>>) or a timestamp.
CursorValues == {NoTimestamp} \cup {<<v>> : v \in 1..MaxTs}

MaxOf(S) == CHOOSE m \in S : \A x \in S : x <= m

\* PostgreSQLSink.IsTableEmpty: SELECT COUNT(*) ... ; count == 0.
IsTableEmpty(table) == Cardinality(table) = 0

\* PostgreSQLSink.GetLatestTimestamp: SELECT f FROM t ORDER BY f DESC LIMIT 1.
\* No row scans as nil; in descending order NULLs sort first, and a NULL
\* scans as nil too; otherwise the greatest value is returned.
GetLatestTimestamp(table) ==
    IF table = {} \/ NoTimestamp \in table
    THEN NoTimestamp
    ELSE <<MaxOf({r[1] : r \in table})>>

\* Lines 154-183 of performInitialSync: the strategy, from the configuration
\* and the answers of the sink (emptyFails, latestFails: the query failed).
\* abort: performInitialSync returns an error before any backfill.
\* isEmpty, latest: how often each query was made; lookup: what the cursor
\* lookup gave ("none" when it was not made).
\* empty: what the emptiness check gave ("none" when it was not made).
FullSync == [abort |-> FALSE, from |-> NoTimestamp, isEmpty |-> 0, latest |-> 0,
             lookup |-> "none", empty |-> "none"]

\* A branch that returns the cursor lookup's error to the caller.
CursorStrategyLookupFatal(table, emptyFails, latestFails) ==
    IF emptyFails
    THEN [FullSync EXCEPT !.abort = TRUE, !.isEmpty = 1, !.empty = "error"]
    ELSE IF IsTableEmpty(table)
    THEN [FullSync EXCEPT !.isEmpty = 1, !.empty = "yes"]
    ELSE IF latestFails
    THEN [FullSync EXCEPT !.abort = TRUE, !.isEmpty = 1, !.latest = 1,
                          !.lookup = "error", !.empty = "no"]
    ELSE IF GetLatestTimestamp(table) # NoTimestamp
    THEN [FullSync EXCEPT !.isEmpty = 1, !.latest = 1, !.lookup = "value",
                          !.from = GetLatestTimestamp(table), !.empty = "no"]
    ELSE [FullSync EXCEPT !.isEmpty = 1, !.latest = 1, !.lookup = "nil",
                          !.empty = "no"]

\* A branch that treats a failed emptiness check like an empty table.
CursorStrategyEmptyCheckIgnored(table, emptyFails, latestFails) ==
    IF emptyFails
    THEN [FullSync EXCEPT !.isEmpty = 1, !.empty = "error"]
    ELSE IF IsTableEmpty(table)
    THEN [FullSync EXCEPT !.isEmpty = 1, !.empty = "yes"]
    ELSE IF latestFails
    THEN [FullSync EXCEPT !.isEmpty = 1, !.latest = 1, !.lookup = "error",
                          !.empty = "no"]
    ELSE IF GetLatestTimestamp(table) # NoTimestamp
    THEN [FullSync EXCEPT !.isEmpty = 1, !.latest = 1, !.lookup = "value",
                          !.from = GetLatestTimestamp(table), !.empty = "no"]
    ELSE [FullSync EXCEPT !.isEmpty = 1, !.latest = 1, !.lookup = "nil",
                          !.empty = "no"]

\* Lines 160-180: the branch taken with a cursor field and without force.
CursorStrategy(table, emptyFails, latestFails) ==
    IF emptyFails
    THEN [FullSync EXCEPT !.abort = TRUE, !.isEmpty = 1, !.empty = "error"]
    ELSE IF IsTableEmpty(table)
    THEN [FullSync EXCEPT !.isEmpty = 1, !.empty = "yes"]
    ELSE IF latestFails
    THEN [FullSync EXCEPT !.isEmpty = 1, !.latest = 1, !.lookup = "error",
                          !.empty = "no"]
    ELSE IF GetLatestTimestamp(table) # NoTimestamp
    THEN [FullSync EXCEPT !.isEmpty = 1, !.latest = 1, !.lookup = "value",
                          !.from = GetLatestTimestamp(table), !.empty = "no"]
    ELSE [FullSync EXCEPT !.isEmpty = 1, !.latest = 1, !.lookup = "nil",
                          !.empty = "no"]

\* A strategy that looks at the cursor field before it looks at force.
ChooseStrategyCursorFirst(force, field, table, emptyFails, latestFails) ==
    IF field # ""
    THEN CursorStrategy(table, emptyFails, latestFails)
    ELSE FullSync

ChooseStrategy(force, field, table, emptyFails, latestFails) ==
    IF force
    THEN FullSync
    ELSE IF field # ""
    THEN CursorStrategy(table, emptyFails, latestFails)
    ELSE FullSync

\* PerformInitialSync, lines 174-180: the filter is set only with a cursor
\* field and a cursor value.
Filtered(field, from) == field # "" /\ from # NoTimestamp

\* A filter written with $gt.
MatchesStrictly(field, from, ts) == Filtered(field, from) => ts > from[1]

\* The filter {field: {$gte: from}} on a document whose field holds ts.
Matches(field, from, ts) == Filtered(field, from) => ts >= from[1]

\* PerformInitialSync, lines 190-193: the sort is set with a cursor field.
Sorted(field) == field # ""

\* The documents the cursor can deliver next: the least by the sort key when
\* sorted (ties in any order), any pending document otherwise.
NextDocs(field, pending, ts) ==
    IF Sorted(field)
    THEN {d \in pending : \A e \in pending : ts[d] <= ts[e]}
    ELSE pending

StartIdle ==
    /\ syncErr = "none"
    /\ syncConn = [source |-> "none", sink |-> "none"]
    /\ probes = [isEmpty |-> 0, latest |-> 0, lookup |-> "none", empty |-> "none"]
    /\ sinkTable = {}
    /\ fromTimestamp = NoTimestamp
    /\ bfSrcPc = "off"
    /\ docTs = <<>>
    /\ bfPending = {}
    /\ bfDoc = 0
    /\ bfEmitted = <<>>
    /\ bfSrcErrs = 0
    /\ bfEventsClosed = FALSE
    /\ bfErrorsClosed = FALSE
    /\ bfTPc = "off"
    /\ bfHeld = NoEvent
    /\ bfDropped = {}
    /\ bfTransformedClosed = FALSE
    /\ bfSinkPc = "off"
    /\ bfWritten = <<>>
    /\ bfSinkErrs = 0
    /\ bfSinkErrorsClosed = FALSE
    /\ bfSrcDrainPc = "off"
    /\ bfSinkDrainPc = "off"
    /\ errorOccurred = FALSE

\* A main that runs the initial sync whatever the configuration says.
AfterStartAlwaysSync(enabled) == "syncConnectSource"

\* main, line 113: performInitialSync is called only when
\* cfg.Pipeline.Sync.InitialSync is set; otherwise main goes to pipe.Run.
AfterStart(enabled) == IF enabled THEN "syncConnectSource" ELSE "run"

\* main, lines 112-120: the initial sync runs only when it is enabled.
MainStart ==
    /\ mainPc = "start"
    /\ mainPc' = AfterStart(InitialSync)
    /\ UNCHANGED <<InitialSync, ForceInitialSync, TimestampField, syncErr>>
    /\ UNCHANGED <<syncVars, bfVars, pipeVars>>

\* performInitialSync, lines 146-148: mongoSrc.Connect(ctx).
SyncConnectSource ==
    /\ mainPc = "syncConnectSource"
    /\ \E ok \in BOOLEAN :
         IF ok
         THEN /\ syncConn' = [syncConn EXCEPT !.source = "ok"]
              /\ mainPc' = "syncConnectSink"
              /\ syncErr' = syncErr
         ELSE /\ syncConn' = [syncConn EXCEPT !.source = "fail"]
              /\ mainPc' = "syncReturned"
              /\ syncErr' = "err"
    /\ UNCHANGED <<InitialSync, ForceInitialSync, TimestampField>>
    /\ UNCHANGED <<probes, sinkTable, fromTimestamp>>
    /\ UNCHANGED <<bfVars, pipeVars>>

\* performInitialSync, lines 150-152: pgSink.Connect(ctx).
SyncConnectSink ==
    /\ mainPc = "syncConnectSink"
    /\ \E ok \in BOOLEAN :
         IF ok
         THEN /\ syncConn' = [syncConn EXCEPT !.sink = "ok"]
              /\ mainPc' = "syncStrategy"
              /\ syncErr' = syncErr
         ELSE /\ syncConn' = [syncConn EXCEPT !.sink = "fail"]
              /\ mainPc' = "syncReturned"
              /\ syncErr' = "err"
    /\ UNCHANGED <<InitialSync, ForceInitialSync, TimestampField>>
    /\ UNCHANGED <<probes, sinkTable, fromTimestamp>>
    /\ UNCHANGED <<bfVars, pipeVars>>

\* performInitialSync, lines 154-195: the strategy is chosen against the
\* sink table as it is at that moment, and syncConfig is prepared.
SyncStrategy ==
    /\ mainPc = "syncStrategy"
    /\ \E table \in SUBSET CursorValues, emptyFails \in BOOLEAN, latestFails \in BOOLEAN :
         LET st == ChooseStrategy(ForceInitialSync, TimestampField, table,
                                  emptyFails, latestFails)
         IN  /\ sinkTable' = table
             /\ probes' = [isEmpty |-> st.isEmpty, latest |-> st.latest,
                            lookup |-> st.lookup, empty |-> st.empty]
             /\ fromTimestamp' = st.from
             /\ IF st.abort
                THEN mainPc' = "syncReturned" /\ syncErr' = "err"
                ELSE mainPc' = "syncRead" /\ syncErr' = syncErr
    /\ UNCHANGED <<InitialSync, ForceInitialSync, TimestampField>>
    /\ UNCHANGED syncConn
    /\ UNCHANGED <<bfVars, pipeVars>>

\* performInitialSync, line 199: mongoSrc.PerformInitialSync(ctx, syncConfig)
\* starts the backfill read worker.
SyncRead ==
    /\ mainPc = "syncRead"
    /\ bfSrcPc' = "find"
    /\ mainPc' = "syncStartTransform"
    /\ UNCHANGED <<InitialSync, ForceInitialSync, TimestampField, syncErr>>
    /\ UNCHANGED <<docTs, bfPending, bfDoc, bfEmitted, bfSrcErrs, bfEventsClosed, bfErrorsClosed>>
    /\ UNCHANGED <<syncVars, bfTrVars, bfSinkVars, bfDrainVars, pipeVars>>

\* performInitialSync, lines 202-216: the transform goroutine is started.
SyncStartTransform ==
    /\ mainPc = "syncStartTransform"
    /\ bfTPc' = "recv"
    /\ mainPc' = "syncWrite"
    /\ UNCHANGED <<InitialSync, ForceInitialSync, TimestampField, syncErr>>
    /\ UNCHANGED <<bfHeld, bfDropped, bfTransformedClosed>>
    /\ UNCHANGED <<syncVars, bfSrcVars, bfSinkVars, bfDrainVars, pipeVars>>

\* performInitialSync, line 219: pgSink.Write(ctx, transformedEvents).
SyncWrite ==
    /\ mainPc = "syncWrite"
    /\ bfSinkPc' = "recv"
    /\ mainPc' = "syncStartDrains"
    /\ UNCHANGED <<InitialSync, ForceInitialSync, TimestampField, syncErr>>
    /\ UNCHANGED <<bfWritten, bfSinkErrs, bfSinkErrorsClosed>>
    /\ UNCHANGED <<syncVars, bfSrcVars, bfTrVars, bfDrainVars, pipeVars>>

\* performInitialSync, lines 222-240: errorOccurred := false and the two
\* error collectors.
SyncStartDrains ==
    /\ mainPc = "syncStartDrains"
    /\ bfSrcDrainPc' = "recv"
    /\ bfSinkDrainPc' = "recv"
    /\ errorOccurred' = FALSE
    /\ mainPc' = "syncWait"
    /\ UNCHANGED <<InitialSync, ForceInitialSync, TimestampField, syncErr>>
    /\ UNCHANGED <<syncVars, bfSrcVars, bfTrVars, bfSinkVars, pipeVars>>

\* The result of performInitialSync after wg.Wait(), lines 244-249.
SyncResult(occurred) == IF occurred THEN "err" ELSE "nil"

\* A wait for the source error collector alone.
SourceCollectorDone == bfSrcDrainPc = "done"

\* wg.Wait() at line 242 returns when both collectors have called wg.Done().
CollectorsDone == bfSrcDrainPc = "done" /\ bfSinkDrainPc = "done"

\* performInitialSync, lines 242-249: wg.Wait(), then the result.
SyncWait ==
    /\ mainPc = "syncWait"
    /\ CollectorsDone
    /\ syncErr' = SyncResult(errorOccurred)
    /\ mainPc' = "syncReturned"
    /\ UNCHANGED <<InitialSync, ForceInitialSync, TimestampField>>
    /\ UNCHANGED <<syncVars, bfVars, pipeVars>>

\* Where main goes after performInitialSync returned, lines 117-123:
\* logger.Fatalf ends the process on an error.
AfterSync(err) == IF err = "err" THEN "fatal" ELSE "run"

MainAfterSync ==
    /\ mainPc = "syncReturned"
    /\ mainPc' = AfterSync(syncErr)
    /\ UNCHANGED <<InitialSync, ForceInitialSync, TimestampField, syncErr>>
    /\ UNCHANGED <<syncVars, bfVars, pipeVars>>

\* main, lines 124-129: pipe.Run returned.
MainAfterRun ==
    /\ mainPc = "run"
    /\ runPc = "returned"
    /\ mainPc' = IF runErr = "err" THEN "fatal" ELSE "exit"
    /\ UNCHANGED <<InitialSync, ForceInitialSync, TimestampField, syncErr>>
    /\ UNCHANGED <<syncVars, bfVars, pipeVars>>

(***************************************************************************)
(* The backfill read worker: the goroutine of                              *)
(* MongoDBSource.PerformInitialSync (lines 167-235).                       *)
(***************************************************************************)
\* Lines 171-200: the filter and the sort are built and collection.Find runs
\* against the collection as it is at that moment; a failed Find sends one
\* error and returns.
BfFind ==
    /\ bfSrcPc = "find"
    /\ \/ /\ bfSrcErrs < MaxErrors
          /\ bfSrcPc' = "sendLastError"
          /\ UNCHANGED <<docTs, bfPending>>
       \/ \E n \in 0..MaxDocs : \E ts \in [1..n -> 1..MaxTs] :
            /\ docTs' = ts
            /\ bfPending' = {d \in 1..n : Matches(TimestampField, fromTimestamp, ts[d])}
            /\ bfSrcPc' = "next"
    /\ UNCHANGED <<bfDoc, bfEmitted, bfSrcErrs, bfEventsClosed, bfErrorsClosed>>
    /\ UNCHANGED <<mainVars, syncVars, bfTrVars, bfSinkVars, bfDrainVars, pipeVars>>

\* Lines 203-232: cursor.Next(ctx) delivers the next document, which decodes
\* (an event to send) or does not (an error to send, and on to the next);
\* or the cursor is exhausted; or it fails (a cancelled ctx included), which
\* sends one error and returns.
BfNext ==
    /\ bfSrcPc = "next"
    /\ \/ \E d \in NextDocs(TimestampField, bfPending, docTs) :
            /\ bfPending' = bfPending \ {d}
            /\ \/ bfDoc' = d /\ bfSrcPc' = "sendEvent"
               \/ bfSrcErrs < MaxErrors /\ bfDoc' = bfDoc /\ bfSrcPc' = "sendError"
       \/ /\ bfPending = {}
          /\ bfSrcPc' = "closeErrors"
          /\ UNCHANGED <<bfPending, bfDoc>>
       \/ /\ bfSrcErrs < MaxErrors
          /\ bfSrcPc' = "sendLastError"
          /\ UNCHANGED <<bfPending, bfDoc>>
    /\ UNCHANGED <<docTs, bfEmitted, bfSrcErrs, bfEventsClosed, bfErrorsClosed>>
    /\ UNCHANGED <<mainVars, syncVars, bfTrVars, bfSinkVars, bfDrainVars, pipeVars>>

\* Lines 211-221: the document becomes an insert event; events <- event,
\* received by the backfill transform worker.
BfSendEvent ==
    /\ bfSrcPc = "sendEvent"
    /\ bfTPc = "recv"
    /\ bfEmitted' = Append(bfEmitted, bfDoc)
    /\ bfSrcPc' = "next"
    /\ bfHeld' = Event(bfDoc)
    /\ bfTPc' = "transform"
    /\ UNCHANGED <<docTs, bfPending, bfDoc, bfSrcErrs, bfEventsClosed, bfErrorsClosed>>
    /\ UNCHANGED <<bfDropped, bfTransformedClosed>>
    /\ UNCHANGED <<mainVars, syncVars, bfSinkVars, bfDrainVars, pipeVars>>

\* What the source error collector does with an error (lines 228-231).
CollectSourceError(occurred) == TRUE

\* errors <- err, received by the source error collector.
BfSendError ==
    /\ bfSrcPc \in {"sendError", "sendLastError"}
    /\ bfSrcDrainPc = "recv"
    /\ bfSrcErrs' = bfSrcErrs + 1
    /\ bfSrcPc' = IF bfSrcPc = "sendError" THEN "next" ELSE "closeErrors"
    /\ errorOccurred' = CollectSourceError(errorOccurred)
    /\ UNCHANGED <<docTs, bfPending, bfDoc, bfEmitted, bfEventsClosed, bfErrorsClosed>>
    /\ UNCHANGED <<bfSrcDrainPc, bfSinkDrainPc>>
    /\ UNCHANGED <<mainVars, syncVars, bfTrVars, bfSinkVars, pipeVars>>

\* defer close(errors)
BfCloseErrors ==
    /\ bfSrcPc = "closeErrors"
    /\ bfErrorsClosed' = TRUE
    /\ bfSrcPc' = "closeEvents"
    /\ UNCHANGED <<docTs, bfPending, bfDoc, bfEmitted, bfSrcErrs, bfEventsClosed>>
    /\ UNCHANGED <<mainVars, syncVars, bfTrVars, bfSinkVars, bfDrainVars, pipeVars>>

\* defer close(events)
BfCloseEvents ==
    /\ bfSrcPc = "closeEvents"
    /\ bfEventsClosed' = TRUE
    /\ bfSrcPc' = "done"
    /\ UNCHANGED <<docTs, bfPending, bfDoc, bfEmitted, bfSrcErrs, bfErrorsClosed>>
    /\ UNCHANGED <<mainVars, syncVars, bfTrVars, bfSinkVars, bfDrainVars, pipeVars>>

(***************************************************************************)
(* The backfill transform worker (performInitialSync, lines 203-216).      *)
(***************************************************************************)
\* A transform worker that counts a failed Transform as a backfill error.
BfTransformApplyCountsError ==
    /\ bfTPc = "transform"
    /\ \E err \in IF transformer # "nil" THEN BOOLEAN ELSE {FALSE} :
         IF err
         THEN /\ bfDropped' = bfDropped \cup {bfHeld.id}
              /\ bfHeld' = NoEvent
              /\ bfTPc' = "recv"
              /\ errorOccurred' = TRUE
         ELSE /\ bfDropped' = bfDropped
              /\ bfHeld' = IF transformer # "nil" THEN Transform(bfHeld) ELSE bfHeld
              /\ bfTPc' = "send"
              /\ errorOccurred' = errorOccurred
    /\ UNCHANGED <<bfTransformedClosed, bfSrcDrainPc, bfSinkDrainPc>>
    /\ UNCHANGED <<mainVars, syncVars, bfSrcVars, bfSinkVars, pipeVars>>

BfTransformApply ==
    /\ bfTPc = "transform"
    /\ \E err \in IF transformer # "nil" THEN BOOLEAN ELSE {FALSE} :
         IF err
         THEN /\ bfDropped' = bfDropped \cup {bfHeld.id}
              /\ bfHeld' = NoEvent
              /\ bfTPc' = "recv"
         ELSE /\ bfDropped' = bfDropped
              /\ bfHeld' = IF transformer # "nil" THEN Transform(bfHeld) ELSE bfHeld
              /\ bfTPc' = "send"
    /\ UNCHANGED bfTransformedClosed
    /\ UNCHANGED <<mainVars, syncVars, bfSrcVars, bfSinkVars, bfDrainVars, pipeVars>>

\* transformedEvents <- event, received by the sink's write worker, which
\* may find a write error to report after taking the event.
BfTransformSend ==
    /\ bfTPc = "send"
    /\ bfSinkPc = "recv"
    /\ bfWritten' = Append(bfWritten, bfHeld)
    /\ bfHeld' = NoEvent
    /\ bfTPc' = "recv"
    /\ \/ bfSinkPc' = "recv"
       \/ bfSinkErrs < MaxErrors /\ bfSinkPc' = "sendError"
    /\ UNCHANGED <<bfDropped, bfTransformedClosed>>
    /\ UNCHANGED <<bfSinkErrs, bfSinkErrorsClosed>>
    /\ UNCHANGED <<mainVars, syncVars, bfSrcVars, bfDrainVars, pipeVars>>

\* The range loop ends and the deferred close(transformedEvents) runs.
BfTransformClose ==
    /\ bfTPc = "recv"
    /\ bfEventsClosed
    /\ bfTransformedClosed' = TRUE
    /\ bfTPc' = "done"
    /\ UNCHANGED <<bfHeld, bfDropped>>
    /\ UNCHANGED <<mainVars, syncVars, bfSrcVars, bfSinkVars, bfDrainVars, pipeVars>>

(***************************************************************************)
(* The sink's write worker during the backfill (PostgreSQLSink.Write).     *)
(***************************************************************************)
\* A collector that logs the error and leaves the flag alone.
CollectSinkErrorOnlyLogged(occurred) == occurred

\* What the sink error collector does with an error (lines 236-239).
CollectSinkError(occurred) == TRUE

\* errors <- err, received by the sink error collector.
BfSinkSendError ==
    /\ bfSinkPc \in {"sendError", "sendLastError"}
    /\ bfSinkDrainPc = "recv"
    /\ bfSinkErrs' = bfSinkErrs + 1
    /\ bfSinkPc' = IF bfSinkPc = "sendError" THEN "recv" ELSE "closeErrors"
    /\ errorOccurred' = CollectSinkError(errorOccurred)
    /\ UNCHANGED <<bfWritten, bfSinkErrorsClosed>>
    /\ UNCHANGED <<bfSrcDrainPc, bfSinkDrainPc>>
    /\ UNCHANGED <<mainVars, syncVars, bfSrcVars, bfTrVars, pipeVars>>

\* The input stream is closed; writing the remaining batch may fail.
BfSinkFinish ==
    /\ bfSinkPc = "recv"
    /\ bfTransformedClosed
    /\ \/ bfSinkPc' = "closeErrors"
       \/ bfSinkErrs < MaxErrors /\ bfSinkPc' = "sendLastError"
    /\ UNCHANGED <<bfWritten, bfSinkErrs, bfSinkErrorsClosed>>
    /\ UNCHANGED <<mainVars, syncVars, bfSrcVars, bfTrVars, bfDrainVars, pipeVars>>

\* defer close(errors)
BfSinkCloseErrors ==
    /\ bfSinkPc = "closeErrors"
    /\ bfSinkErrorsClosed' = TRUE
    /\ bfSinkPc' = "done"
    /\ UNCHANGED <<bfWritten, bfSinkErrs>>
    /\ UNCHANGED <<mainVars, syncVars, bfSrcVars, bfTrVars, bfDrainVars, pipeVars>>

\* range errors ends; wg.Done().
BfSourceDrainDone ==
    /\ bfSrcDrainPc = "recv"
    /\ bfErrorsClosed
    /\ bfSrcDrainPc' = "done"
    /\ UNCHANGED <<bfSinkDrainPc, errorOccurred>>
    /\ UNCHANGED <<mainVars, syncVars, bfSrcVars, bfTrVars, bfSinkVars, pipeVars>>

\* range sinkErrors ends; wg.Done().
BfSinkDrainDone ==
    /\ bfSinkDrainPc = "recv"
    /\ bfSinkErrorsClosed
    /\ bfSinkDrainPc' = "done"
    /\ UNCHANGED <<bfSrcDrainPc, errorOccurred>>
    /\ UNCHANGED <<mainVars, syncVars, bfSrcVars, bfTrVars, bfSinkVars, pipeVars>>

MainNext ==
    \/ MainStart
    \/ SyncConnectSource
    \/ SyncConnectSink
    \/ SyncStrategy
    \/ SyncRead
    \/ SyncStartTransform
    \/ SyncWrite
    \/ SyncStartDrains
    \/ SyncWait
    \/ MainAfterSync
    \/ MainAfterRun

BackfillNext ==
    \/ BfFind
    \/ BfNext
    \/ BfSendEvent
    \/ BfSendError
    \/ BfCloseErrors
    \/ BfCloseEvents
    \/ BfTransformApply
    \/ BfTransformSend
    \/ BfTransformClose
    \/ BfSinkSendError
    \/ BfSinkFinish
    \/ BfSinkCloseErrors
    \/ BfSourceDrainDone
    \/ BfSinkDrainDone

RunNext ==
    \/ RunEnter
    \/ RunConnectSource
    \/ RunConnectSink
    \/ RunRead
    \/ RunStartTransform
    \/ RunWrite
    \/ RunStartDrains
    \/ RunWait
    \/ RunCloseSink
    \/ RunCloseSource

WorkerNext ==
    \/ SourceStep
    \/ SourceObserveCancel
    \/ SourceSendEvent
    \/ SourceSendError
    \/ SourceCloseErrors
    \/ SourceCloseEvents
    \/ TransformApply
    \/ TransformSend
    \/ TransformClose
    \/ SinkSendError
    \/ SinkFinish
    \/ SinkCloseErrors
    \/ SourceDrainDone
    \/ SinkDrainDone

(***************************************************************************)
(* The FieldMapper (pkg/transform/fieldmapper.go).                         *)
(*                                                                         *)
(* A string is a sequence of tokens, each token standing for a run of      *)
(* characters without "@", or for the character "@".  A value of           *)
(* interface{} is a record: t is its dynamic type, v is what               *)
(* fmt.Sprintf("%v", value) prints, as a string, for a value that is not   *)
(* a document, and m holds the keys of a document.                         *)
(***************************************************************************)
Null == [t |-> "null", v |-> <<>>, m |-> <<>>]

StringValue(s) == [t |-> "string", v |-> s, m |-> <<>>]

IntValue(digits) == [t |-> "int", v |-> <<digits>>, m |-> <<>>]

\* "john.doe@example.com"
Email == <<"john.doe", "@", "example.com">>

\* A nested document, map[string]interface{}.
MapValue(m) == [t |-> "map", v |-> <<"map[]">>, m |-> m]

\* Tokens that are runs of decimal digits.
Digits == {"0", "7"}

\* The fields of an Event other than Data (Timestamp as a number, Before as
\* a one-element sequence or empty): those of the zero Event, and those of
\* the event Transform is called with.
ZeroFields ==
    [ID |-> "", Timestamp |-> 0, Operation |-> "", Source |-> "", Database |-> "",
     Collection |-> "", Before |-> <<>>]

EventFields ==
    {[ID |-> "e1", Timestamp |-> 1, Operation |-> "update", Source |-> "mongodb",
      Database |-> "db", Collection |-> "users", Before |-> <<"before">>]}

\* A map with no key, and map[k] = v.
EmptyMap == <<>>

Put(m, k, v) == [x \in DOMAIN m \cup {k} |-> IF x = k THEN v ELSE m[x]]

\* The domains the rule lists and the event data are drawn from.
SourceNames == {"email", "name"}

DestinationNames == {"", "name"}

Formats == {"", "int"}

\* Default is a Go string: empty, or "7".
Defaults == {<<>>, <<"7">>}

UserPattern == "^([^@]+)@"

DomainPattern == "@(.+)$"

\* A pattern without a capture group: "@" and what follows it.
WholePattern == "@.+$"

\* A pattern regexp.Compile rejects.
InvalidPattern == "[invalid(regex"

ExtractPatterns == {"", UserPattern, DomainPattern, InvalidPattern}

\* NestedPath is a Go string, here the sequence of its names and dots; the
\* empty string is the empty sequence.
NoPath == <<>>

UserEmailPath == <<"user", ".", "email">>

NestedPaths == {<<"email">>, <<"user", ".">>, UserEmailPath,
                <<"user", ".", "email", ".", "email">>}

\* Rules without a nested path.
FieldMappings ==
    [Source : SourceNames, Destination : DestinationNames, Format : Formats,
     Default : Defaults, Required : BOOLEAN, Extract : ExtractPatterns,
     NestedPath : {NoPath}]

MappingLists == UNION {[1..n -> FieldMappings] : n \in 0..MaxRules}

\* Rules with a pattern, with or without a capture group, and no format.
ExtractMappings ==
    [Source : SourceNames, Destination : DestinationNames, Format : {""},
     Default : Defaults, Required : BOOLEAN, Extract : {UserPattern, WholePattern},
     NestedPath : {NoPath}]

ExtractMappingLists == UNION {[1..n -> ExtractMappings] : n \in 0..MaxRules}

\* Rules with a nested path, without a pattern and without a format.
NestedMappings ==
    [Source : {"user", "email"}, Destination : DestinationNames, Format : {""},
     Default : Defaults, Required : BOOLEAN, Extract : {""},
     NestedPath : NestedPaths]

NestedMappingLists == UNION {[1..n -> NestedMappings] : n \in 0..MaxRules}

ExcludeLists == {{}, {"name"}}

\* event.Data: "email" absent, null, "", 0 or an address; "name" absent,
\* null or a string.
EmailValues == {Null, StringValue(<<>>), IntValue("0"), StringValue(Email)}

NameValues == {Null, StringValue(<<"john">>)}

EventDatas ==
    LET withEmail == {EmptyMap} \cup {Put(EmptyMap, "email", v) : v \in EmailValues}
    IN  withEmail \cup {Put(m, "name", v) : m \in withEmail, v \in NameValues}

\* event.Data with a nested document: "user" absent, null, a string, or a
\* document whose "email" is absent, null, an address or a document again;
\* "email" absent or a string at the top level.
UserValues ==
    {Null, StringValue(<<"john">>), MapValue(Put(EmptyMap, "id", IntValue("7")))}
        \cup {MapValue(Put(EmptyMap, "email", v)) :
                 v \in {Null, StringValue(Email),
                        MapValue(Put(EmptyMap, "email", StringValue(Email)))}}

NestedEventDatas ==
    LET withUser == {EmptyMap} \cup {Put(EmptyMap, "user", v) : v \in UserValues}
    IN  withUser \cup {Put(m, "email", StringValue(<<"john">>)) : m \in withUser}

\* The events a Transform call is tried with: nested documents for a rule
\* list that has a nested path, flat data otherwise.
EventsFor(mappings) ==
    IF \E i \in 1..Len(mappings) : mappings[i].NestedPath # NoPath
    THEN NestedEventDatas
    ELSE EventDatas

\* A regexp.Compile that accepts every pattern.
CompilesAnything(pattern) == TRUE

\* regexp.Compile, line 60: whether it returns no error.
Compiles(pattern) == pattern # InvalidPattern

\* NewFieldMapperWithLogger, lines 57-66: the patterns are stored under the
\* mapping's Source, in declaration order, in one map.
RECURSIVE CompileExtractors(_, _)
CompileExtractors(mappings, n) ==
    IF n = 0
    THEN EmptyMap
    ELSE LET before == CompileExtractors(mappings, n - 1)
         IN  IF mappings[n].Extract # ""
             THEN Put(before, mappings[n].Source, mappings[n].Extract)
             ELSE before

\* strings.Split(nestedPath, "."), line 256: the names between the dots, an
\* empty name where a dot has nothing before or after it.
RECURSIVE Split(_)
Split(path) ==
    IF path = <<>>
    THEN <<"">>
    ELSE IF Head(path) = "."
    THEN <<"">> \o Split(Tail(path))
    ELSE IF Len(path) = 1
    THEN <<Head(path)>>
    ELSE <<Head(path)>> \o Split(SubSeq(path, 3, Len(path)))

\* The loop of lines 259-269: each part is looked up in current, which has
\* to be a map[string]interface{}.
RECURSIVE Walk(_, _)
Walk(current, parts) ==
    IF parts = <<>>
    THEN [value |-> current, exists |-> TRUE]
    ELSE IF current.t = "map" /\ Head(parts) \in DOMAIN current.m
    THEN Walk(current.m[Head(parts)], Tail(parts))
    ELSE [value |-> Null, exists |-> FALSE]

\* A walk that starts at data[source] instead of data.
getFieldValueBelowSource(data, source, nestedPath) ==
    IF source \in DOMAIN data
    THEN Walk(data[source], Split(nestedPath))
    ELSE [value |-> Null, exists |-> FALSE]

\* getFieldValue, lines 248-272: data[source] without a nested path, else
\* the walk along the nested path from data itself.
getFieldValue(data, source, nestedPath) ==
    IF nestedPath = NoPath
    THEN IF source \in DOMAIN data
         THEN [value |-> data[source], exists |-> TRUE]
         ELSE [value |-> Null, exists |-> FALSE]
    ELSE Walk(MapValue(data), Split(nestedPath))

\* Indices of "@" in s that the pattern's match can start at.
FirstAt(s, last) ==
    LET at == {i \in 1..last : s[i] = "@"}
    IN  IF at = {} THEN 0 ELSE CHOOSE i \in at : \A j \in at : i <= j

\* regexp.FindStringSubmatch: <<>> without a match, else the whole match
\* followed by the capture groups.  ^([^@]+)@ needs a non-empty run before
\* the first "@"; @(.+)$ matches from the leftmost "@" that has something
\* after it to the end.
FindStringSubmatch(pattern, s) ==
    CASE pattern = UserPattern ->
            LET p == FirstAt(s, Len(s))
            IN  IF p > 1 THEN <<SubSeq(s, 1, p), SubSeq(s, 1, p - 1)>> ELSE <<>>
      [] pattern = DomainPattern ->
            LET p == FirstAt(s, Len(s) - 1)
            IN  IF p > 0
                THEN <<SubSeq(s, p, Len(s)), SubSeq(s, p + 1, Len(s))>>
                ELSE <<>>
      [] pattern = WholePattern ->
            LET p == FirstAt(s, Len(s) - 1)
            IN  IF p > 0 THEN <<SubSeq(s, p, Len(s))>> ELSE <<>>
      [] OTHER -> <<>>

\* formatValue, lines 164-245, for the formats of Formats: "" returns the
\* value itself; "int" scans a leading run of digits of the printed value
\* (fmt.Sscanf with %d) and fails without one; a document prints as
\* "map[...]".
formatValue(value, format) ==
    CASE format = "" -> [value |-> value, err |-> FALSE]
      [] format = "int" ->
            IF value.v # <<>> /\ value.v[1] \in Digits
            THEN [value |-> IntValue(value.v[1]), err |-> FALSE]
            ELSE [value |-> Null, err |-> TRUE]
      [] OTHER -> [value |-> value, err |-> FALSE]

\* Lines 123-127: the destination name, or the source name without one.
DestName(mapping) ==
    IF mapping.Destination = "" THEN mapping.Source ELSE mapping.Destination

\* What one pass of the rule loop does: "write" (line 128), "skip" (a
\* continue) or "abort" (a return with an error); issues: what it appended
\* to errors; why: the branch that decided, "missing" (lines 82-95),
\* "extract" (105-110), "format" (115-121) or "ok" (128).
Outcome(kind, value, issues, why) ==
    [kind |-> kind, value |-> value, issues |-> issues, why |-> why]

\* A formatting error that is fatal only for a required mapping.
FormatAndWriteFatalIfRequired(mapping, value, strict, issues) ==
    LET f == formatValue(value, mapping.Format)
    IN  IF f.err
        THEN Outcome(IF strict /\ mapping.Required THEN "abort" ELSE "skip", Null,
                     issues + 1, "format")
        ELSE Outcome("write", f.value, issues, "ok")

\* Lines 113-128: format the value, then write it.
FormatAndWrite(mapping, value, strict, issues) ==
    LET f == formatValue(value, mapping.Format)
    IN  IF f.err
        THEN Outcome(IF strict THEN "abort" ELSE "skip", Null, issues + 1, "format")
        ELSE Outcome("write", f.value, issues, "ok")

\* An extraction whose failure is fatal for a required rule, with or
\* without strictMode.
ExtractThenFormatRequiredFatal(mapping, value, extr, strict, issues) ==
    IF mapping.Source \in DOMAIN extr
    THEN LET matches == FindStringSubmatch(extr[mapping.Source], value.v)
         IN  IF Len(matches) > 1
             THEN FormatAndWrite(mapping, StringValue(matches[2]), strict, issues)
             ELSE IF Len(matches) > 0
             THEN FormatAndWrite(mapping, StringValue(matches[1]), strict, issues)
             ELSE Outcome(IF mapping.Required THEN "abort" ELSE "skip",
                          Null, issues, "extract")
    ELSE FormatAndWrite(mapping, value, strict, issues)

\* An extraction that takes the whole match also when the pattern has a
\* capture group.
ExtractThenFormatWholeMatch(mapping, value, extr, strict, issues) ==
    IF mapping.Source \in DOMAIN extr
    THEN LET matches == FindStringSubmatch(extr[mapping.Source], value.v)
         IN  IF Len(matches) > 0
             THEN FormatAndWrite(mapping, StringValue(matches[1]), strict, issues)
             ELSE Outcome(IF mapping.Required /\ strict THEN "abort" ELSE "skip",
                          Null, issues, "extract")
    ELSE FormatAndWrite(mapping, value, strict, issues)

\* Lines 97-111: extract with the pattern stored under the mapping's Source.
ExtractThenFormat(mapping, value, extr, strict, issues) ==
    IF mapping.Source \in DOMAIN extr
    THEN LET matches == FindStringSubmatch(extr[mapping.Source], value.v)
         IN  IF Len(matches) > 1
             THEN FormatAndWrite(mapping, StringValue(matches[2]), strict, issues)
             ELSE IF Len(matches) > 0
             THEN FormatAndWrite(mapping, StringValue(matches[1]), strict, issues)
             ELSE Outcome(IF mapping.Required /\ strict THEN "abort" ELSE "skip",
                          Null, issues, "extract")
    ELSE FormatAndWrite(mapping, value, strict, issues)

\* A test that takes only an absent key for a missing value.
ValueMissingOnlyAbsent(got) == ~got.exists

\* Lines 79-95: the value is missing when the key does not exist or holds nil.
ValueMissing(got) == ~got.exists \/ got.value = Null

\* A rule loop that writes a default as it is, without extraction or format.
ApplyMappingDefaultAsIs(mapping, data, extr, strict) ==
    LET got == getFieldValue(data, mapping.Source, mapping.NestedPath)
    IN  IF ValueMissing(got)
        THEN LET issues == IF mapping.Required THEN 1 ELSE 0
             IN  IF mapping.Required /\ strict
                 THEN Outcome("abort", Null, issues, "missing")
                 ELSE IF mapping.Default # <<>>
                 THEN Outcome("write", StringValue(mapping.Default), issues, "ok")
                 ELSE Outcome("skip", Null, issues, "missing")
        ELSE ExtractThenFormat(mapping, got.value, extr, strict, 0)

\* A rule loop without the strict-mode return for a missing required field.
ApplyMappingNoStrictReturn(mapping, data, extr, strict) ==
    LET got == getFieldValue(data, mapping.Source, mapping.NestedPath)
    IN  IF ValueMissing(got)
        THEN LET issues == IF mapping.Required THEN 1 ELSE 0
             IN  IF mapping.Default # <<>>
                 THEN ExtractThenFormat(mapping, StringValue(mapping.Default),
                                        extr, strict, issues)
                 ELSE Outcome("skip", Null, issues, "missing")
        ELSE ExtractThenFormat(mapping, got.value, extr, strict, 0)

\* Lines 78-128: the body of the rule loop for one mapping.
ApplyMapping(mapping, data, extr, strict) ==
    LET got == getFieldValue(data, mapping.Source, mapping.NestedPath)
    IN  IF ValueMissing(got)
        THEN LET issues == IF mapping.Required THEN 1 ELSE 0
             IN  IF mapping.Required /\ strict
                 THEN Outcome("abort", Null, issues, "missing")
                 ELSE IF mapping.Default # <<>>
                 THEN ExtractThenFormat(mapping, StringValue(mapping.Default),
                                        extr, strict, issues)
                 ELSE Outcome("skip", Null, issues, "missing")
        ELSE ExtractThenFormat(mapping, got.value, extr, strict, 0)

\* Lines 144-149: whether the include-all loop copies a key of event.Data.
CopiesKey(key, mappings, exclude) ==
    /\ \A i \in 1..Len(mappings) : mappings[i].Source # key
    /\ key \notin exclude

\* An include-all loop that leaves alone the keys newData already holds.
IncludeUnmappedNoOverwrite(out, data, mappings, exclude) ==
    [k \in DOMAIN out \cup {x \in DOMAIN data : CopiesKey(x, mappings, exclude)} |->
        IF k \in DOMAIN out THEN out[k] ELSE data[k]]

\* Lines 131-150: the include-all loop assigns newData[key] for every key
\* it copies.
IncludeUnmapped(out, data, mappings, exclude) ==
    [k \in DOMAIN out \cup {x \in DOMAIN data : CopiesKey(x, mappings, exclude)} |->
        IF k \in DOMAIN data /\ CopiesKey(k, mappings, exclude) THEN data[k] ELSE out[k]]

\* Lines 77-129 as a function: newData after the first n mappings, or the
\* fact that one of them returned an error.
RECURSIVE ApplyMappings(_, _, _, _, _)
ApplyMappings(mappings, n, data, extr, strict) ==
    IF n = 0
    THEN [err |-> FALSE, out |-> EmptyMap]
    ELSE LET before == ApplyMappings(mappings, n - 1, data, extr, strict)
             o == ApplyMapping(mappings[n], data, extr, strict)
         IN  IF before.err \/ o.kind = "skip"
             THEN before
             ELSE IF o.kind = "abort"
             THEN [err |-> TRUE, out |-> before.out]
             ELSE [err |-> FALSE, out |-> Put(before.out, DestName(mappings[n]), o.value)]

\* Transform, lines 72-161, as a function of the event data, for the
\* FieldMapper of the current state: the error outcome and the returned data.
TransformOf(data) ==
    LET r == ApplyMappings(Mappings, Len(Mappings), data, extractors, StrictMode)
    IN  IF r.err
        THEN [err |-> TRUE, data |-> data]
        ELSE [err |-> FALSE,
              data |-> IF IncludeAll
                       THEN IncludeUnmapped(r.out, data, Mappings, ExcludeFields)
                       ELSE r.out]

\* No FieldMapper: the state of these variables in the other specifications.
MapperIdle ==
    /\ fmPc = "off"
    /\ Mappings = <<>>
    /\ IncludeAll = FALSE
    /\ ExcludeFields = {}
    /\ StrictMode = FALSE
    /\ extractors = EmptyMap
    /\ eventData = EmptyMap
    /\ newData = EmptyMap
    /\ errors = 0
    /\ ruleIdx = 0
    /\ wrote = {}
    /\ outcomes = <<>>
    /\ ruleData = EmptyMap
    /\ resultData = EmptyMap
    /\ eventFields = ZeroFields
    /\ resultFields = ZeroFields
    /\ transformErr = "none"

\* NewFieldMapperWithLogger, lines 46-69: it returns nil and an error at
\* the first pattern that does not compile, else the FieldMapper.
NewFieldMapper ==
    /\ fmPc = "config"
    /\ IF \E i \in 1..Len(Mappings) :
              Mappings[i].Extract # "" /\ ~Compiles(Mappings[i].Extract)
       THEN /\ fmPc' = "failed"
            /\ UNCHANGED extractors
       ELSE /\ fmPc' = "ready"
            /\ extractors' = CompileExtractors(Mappings, Len(Mappings))
    /\ UNCHANGED <<Mappings, IncludeAll, ExcludeFields, StrictMode>>
    /\ UNCHANGED fmCallVars
    /\ UNCHANGED <<transformer, srcKind, sinkKind, streamLen, pgVars>>
    /\ UNCHANGED <<cancelled, runVars, srcVars, trVars, sinkVars, drainVars, startVars>>

\* Transform is called with an event, lines 72-74.
TransformBegin ==
    /\ fmPc = "ready"
    /\ eventData' \in EventsFor(Mappings)
    /\ newData' = EmptyMap
    /\ errors' = 0
    /\ ruleIdx' = 1
    /\ fmPc' = "rules"
    /\ eventFields' \in EventFields
    /\ UNCHANGED <<wrote, outcomes, ruleData, resultData, resultFields, transformErr>>
    /\ UNCHANGED fmConfigVars
    /\ UNCHANGED <<transformer, srcKind, sinkKind, streamLen, pgVars>>
    /\ UNCHANGED <<cancelled, runVars, srcVars, trVars, sinkVars, drainVars, startVars>>

\* A rule loop that looks a source up in what earlier rules wrote before
\* it looks in the event.
TransformMappingReadsWritten ==
    /\ fmPc = "rules"
    /\ ruleIdx <= Len(Mappings)
    /\ LET mapping == Mappings[ruleIdx]
           seen == [x \in DOMAIN eventData \cup DOMAIN newData |->
                       IF x \in DOMAIN newData THEN newData[x] ELSE eventData[x]]
           o == ApplyMapping(mapping, seen, extractors, StrictMode)
       IN  /\ errors' = errors + o.issues
           /\ outcomes' = Append(outcomes, [kind |-> o.kind, why |-> o.why,
                                            value |-> o.value])
           /\ IF o.kind = "abort"
              THEN /\ fmPc' = "returned"
                   /\ resultData' = eventData
                   /\ resultFields' = eventFields
                   /\ transformErr' = "err"
                   /\ UNCHANGED <<newData, wrote, ruleIdx>>
              ELSE /\ fmPc' = "rules"
                   /\ ruleIdx' = ruleIdx + 1
                   /\ UNCHANGED <<resultData, resultFields, transformErr>>
                   /\ IF o.kind = "write"
                      THEN /\ newData' = Put(newData, DestName(mapping), o.value)
                           /\ wrote' = wrote \cup {ruleIdx}
                      ELSE UNCHANGED <<newData, wrote>>
    /\ UNCHANGED <<eventData, eventFields, ruleData>>
    /\ UNCHANGED fmConfigVars
    /\ UNCHANGED <<transformer, srcKind, sinkKind, streamLen, pgVars>>
    /\ UNCHANGED <<cancelled, runVars, srcVars, trVars, sinkVars, drainVars, startVars>>

\* One pass of the rule loop, lines 77-129.  An abort returns the event as
\* it was passed, with an error.
TransformMapping ==
    /\ fmPc = "rules"
    /\ ruleIdx <= Len(Mappings)
    /\ LET mapping == Mappings[ruleIdx]
           o == ApplyMapping(mapping, eventData, extractors, StrictMode)
       IN  /\ errors' = errors + o.issues
           /\ outcomes' = Append(outcomes, [kind |-> o.kind, why |-> o.why,
                                            value |-> o.value])
           /\ IF o.kind = "abort"
              THEN /\ fmPc' = "returned"
                   /\ resultData' = eventData
                   /\ resultFields' = eventFields
                   /\ transformErr' = "err"
                   /\ UNCHANGED <<newData, wrote, ruleIdx>>
              ELSE /\ fmPc' = "rules"
                   /\ ruleIdx' = ruleIdx + 1
                   /\ UNCHANGED <<resultData, resultFields, transformErr>>
                   /\ IF o.kind = "write"
                      THEN /\ newData' = Put(newData, DestName(mapping), o.value)
                           /\ wrote' = wrote \cup {ruleIdx}
                      ELSE UNCHANGED <<newData, wrote>>
    /\ UNCHANGED <<eventData, eventFields, ruleData>>
    /\ UNCHANGED fmConfigVars
    /\ UNCHANGED <<transformer, srcKind, sinkKind, streamLen, pgVars>>
    /\ UNCHANGED <<cancelled, runVars, srcVars, trVars, sinkVars, drainVars, startVars>>

\* The rule loop has ended; lines 131-150, the unmapped fields.
TransformIncludeAll ==
    /\ fmPc = "rules"
    /\ ruleIdx > Len(Mappings)
    /\ ruleData' = newData
    /\ newData' = IF IncludeAll
                  THEN IncludeUnmapped(newData, eventData, Mappings, ExcludeFields)
                  ELSE newData
    /\ fmPc' = "includeAll"
    /\ UNCHANGED <<eventData, errors, ruleIdx, wrote, outcomes, resultData, transformErr>>
    /\ UNCHANGED <<eventFields, resultFields>>
    /\ UNCHANGED fmConfigVars
    /\ UNCHANGED <<transformer, srcKind, sinkKind, streamLen, pgVars>>
    /\ UNCHANGED <<cancelled, runVars, srcVars, trVars, sinkVars, drainVars, startVars>>

\* A return of a new Event that holds only the new data.
TransformReturnFreshEvent ==
    /\ fmPc = "includeAll"
    /\ resultData' = newData
    /\ resultFields' = ZeroFields
    /\ transformErr' = "nil"
    /\ fmPc' = "returned"
    /\ UNCHANGED <<eventData, eventFields, newData, errors, ruleIdx, wrote,
                   outcomes, ruleData>>
    /\ UNCHANGED fmConfigVars
    /\ UNCHANGED <<transformer, srcKind, sinkKind, streamLen, pgVars>>
    /\ UNCHANGED <<cancelled, runVars, srcVars, trVars, sinkVars, drainVars, startVars>>

\* Lines 152-160: event.Data = newData; return event, nil.
TransformReturn ==
    /\ fmPc = "includeAll"
    /\ resultData' = newData
    /\ resultFields' = eventFields
    /\ transformErr' = "nil"
    /\ fmPc' = "returned"
    /\ UNCHANGED <<eventData, eventFields, newData, errors, ruleIdx, wrote,
                   outcomes, ruleData>>
    /\ UNCHANGED fmConfigVars
    /\ UNCHANGED <<transformer, srcKind, sinkKind, streamLen, pgVars>>
    /\ UNCHANGED <<cancelled, runVars, srcVars, trVars, sinkVars, drainVars, startVars>>

MapperNext ==
    \/ NewFieldMapper
    \/ TransformBegin
    \/ TransformMapping
    \/ TransformIncludeAll
    \/ TransformReturn

(***************************************************************************)
(* Change capture and the PostgreSQL sink (pkg/source/mongodb.go,          *)
(* pkg/sink/postgresql.go).                                                *)
(*                                                                         *)
(* The collection holds documents {_id, name}.  A map[string]interface{}   *)
(* is a function from its keys to strings; nil and the empty map are both  *)
(* EmptyMap (a lookup in either finds nothing and len is 0).  The target   *)
(* table is the one of the README, with _id as its primary key.            *)
(***************************************************************************)
Ids == {"d1", "d2"}

Names == {"a", "b"}

Doc(id, name) == Put(Put(EmptyMap, "_id", id), "name", name)

\* What the change stream delivers for the next operation on the
\* collection: insertOne of a new _id, updateOne, replaceOne or deleteOne
\* of an existing one.  fullDocument and updatedFields are a one-element
\* sequence, or empty when the change document has no such key.
ChangeDocs(coll) ==
    {[operationType |-> "insert", documentKey |-> i,
      fullDocument |-> <<Doc(i, n)>>, updatedFields |-> <<>>] :
        i \in Ids \ DOMAIN coll, n \in Names}
    \cup
    {[operationType |-> "update", documentKey |-> i,
      fullDocument |-> <<Doc(i, n)>>,
      updatedFields |-> <<Put(EmptyMap, "name", n)>>] :
        i \in DOMAIN coll, n \in Names}
    \cup
    {[operationType |-> "replace", documentKey |-> i,
      fullDocument |-> <<Doc(i, n)>>, updatedFields |-> <<>>] :
        i \in DOMAIN coll, n \in Names}
    \cup
    {[operationType |-> "delete", documentKey |-> i,
      fullDocument |-> <<>>, updatedFields |-> <<>>] : i \in DOMAIN coll}

\* The collection after the operation of a change document.
AfterChange(coll, changeDoc) ==
    IF changeDoc.operationType = "delete"
    THEN [i \in DOMAIN coll \ {changeDoc.documentKey} |-> coll[i]]
    ELSE Put(coll, changeDoc.documentKey, changeDoc.fullDocument[1]["name"])

\* m with the keys of over assigned, mongodb.go lines 131-133.
Overlay(m, over) ==
    [k \in DOMAIN m \cup DOMAIN over |-> IF k \in DOMAIN over THEN over[k] ELSE m[k]]

\* convertChangeEvent, mongodb.go lines 107-140: ID is the printed "_id" of
\* the change document (its resume token), Data is fullDocument with
\* updateDescription.updatedFields assigned over it, and stays nil when the
\* change document has neither.
convertChangeEvent(changeDoc) ==
    LET fullDoc == IF changeDoc.fullDocument # <<>>
                   THEN changeDoc.fullDocument[1]
                   ELSE EmptyMap
        data == IF changeDoc.updatedFields # <<>>
                THEN Overlay(fullDoc, changeDoc.updatedFields[1])
                ELSE fullDoc
    IN  [ID |-> "resume token", Operation |-> changeDoc.operationType, Data |-> data]

\* The event PerformInitialSync makes of a document it read, mongodb.go
\* lines 211-219.
SyncEvent(id, name) == [ID |-> id, Operation |-> "insert", Data |-> Doc(id, name)]

\* The result of a statement: the table after it and whether it failed.
Done(rows) == [rows |-> rows, err |-> FALSE]

Failed(rows) == [rows |-> rows, err |-> TRUE]

\* The columns of a row other than _id.
RowOf(data) == [c \in DOMAIN data \ {"_id"} |-> data[c]]

\* An insertEvent whose statement has no ON CONFLICT clause: a second row
\* with the _id of an existing one violates the primary key.
insertEventWithoutUpsert(rows, event) ==
    IF DOMAIN event.Data = {}
    THEN Done(rows)
    ELSE IF "_id" \notin DOMAIN event.Data \/ event.Data["_id"] \in DOMAIN rows
    THEN Failed(rows)
    ELSE Done(Put(rows, event.Data["_id"], RowOf(event.Data)))

\* insertEvent, postgresql.go lines 141-168: nothing without data; else
\* INSERT ... ON CONFLICT (_id) DO UPDATE SET col = EXCLUDED.col for the
\* columns of the event other than _id.  The statement fails without an
\* _id (the primary key is null) and when _id is the only column (the SET
\* list is empty).
insertEvent(rows, event) ==
    IF DOMAIN event.Data = {}
    THEN Done(rows)
    ELSE IF "_id" \notin DOMAIN event.Data \/ DOMAIN event.Data = {"_id"}
    THEN Failed(rows)
    ELSE LET id == event.Data["_id"]
         IN  IF id \in DOMAIN rows
             THEN Done(Put(rows, id, Overlay(rows[id], RowOf(event.Data))))
             ELSE Done(Put(rows, id, RowOf(event.Data)))

\* deleteEvent, postgresql.go lines 176-183: DELETE ... WHERE _id = $1 with
\* event.Data["_id"], and nothing when the data has no "_id".
deleteEvent(rows, event) ==
    IF "_id" \in DOMAIN event.Data
    THEN Done([i \in DOMAIN rows \ {event.Data["_id"]} |-> rows[i]])
    ELSE Done(rows)

\* writeEvent, postgresql.go lines 126-138.
writeEvent(rows, event) ==
    CASE event.Operation = "insert" -> insertEvent(rows, event)
      [] event.Operation \in {"update", "replace"} -> insertEvent(rows, event)
      [] event.Operation = "delete" -> deleteEvent(rows, event)
      [] OTHER -> Done(rows)

\* The loop of writeBatch, lines 109-113, inside the transaction: it stops
\* at the first event that fails.
RECURSIVE WriteEvents(_, _)
WriteEvents(rows, events) ==
    IF events = <<>>
    THEN Done(rows)
    ELSE LET r == writeEvent(rows, Head(events))
         IN  IF r.err THEN r ELSE WriteEvents(r.rows, Tail(events))

\* A writeBatch without the deferred Rollback: what the statements did
\* before the failure stays in the table.
writeBatchWithoutRollback(rows, events, dbFails) ==
    LET r == WriteEvents(rows, events)
    IN  IF dbFails \/ r.err THEN Failed(r.rows) ELSE Done(r.rows)

\* writeBatch, postgresql.go lines 96-123: one transaction; when the
\* database fails (BeginTx, a statement or Commit) the deferred Rollback
\* leaves the table as it was.
writeBatch(rows, events, dbFails) ==
    LET r == WriteEvents(rows, events)
    IN  IF dbFails \/ r.err THEN Failed(rows) ELSE Done(r.rows)

\* No sink worker: the state of these variables in the other specifications.
SinkIdle ==
    /\ collection = EmptyMap
    /\ captured = <<>>
    /\ inputClosed = FALSE
    /\ wrPc = "off"
    /\ batch = <<>>
    /\ tableRows = EmptyMap
    /\ received = 0
    /\ flushed = 0
    /\ applied = <<>>
    /\ sentErrors = 0
    /\ dbFailures = 0

\* Where Write's worker goes after a batch: back to the range loop, or to
\* its end when the input is closed.
AfterBatch == IF inputClosed THEN "closed" ELSE "range"

\* Write's worker takes an event from its input, lines 73-76: the batch is
\* written only when it holds batchSize events.
Receive(key, event) ==
    /\ captured' = Append(captured, [key |-> key, event |-> event])
    /\ batch' = Append(batch, Len(captured) + 1)
    /\ received' = received + 1
    /\ wrPc' = IF Len(batch) + 1 >= BatchSize THEN "flush" ELSE "range"
    /\ UNCHANGED <<inputClosed, tableRows, flushed, applied, sentErrors, dbFailures>>

\* An operation on the collection; the change stream delivers its change
\* document, Read converts it (mongodb.go lines 88-96) and the pipeline
\* hands the event, untransformed, to Write.
ChangeCaptured ==
    /\ wrPc = "range"
    /\ ~inputClosed
    /\ Len(captured) < MaxChanges
    /\ \E changeDoc \in ChangeDocs(collection) :
          /\ collection' = AfterChange(collection, changeDoc)
          /\ Receive(changeDoc.documentKey, convertChangeEvent(changeDoc))
    /\ UNCHANGED <<transformer, srcKind, sinkKind, streamLen, fmVars>>
    /\ UNCHANGED <<cancelled, runVars, srcVars, trVars, sinkVars, drainVars, startVars>>

\* A document of the collection is read again by an initial sync (at the
\* backfill boundary) and handed to Write as an insert.
RecordReadAgain ==
    /\ wrPc = "range"
    /\ ~inputClosed
    /\ Len(captured) < MaxChanges
    /\ \E id \in DOMAIN collection : Receive(id, SyncEvent(id, collection[id]))
    /\ UNCHANGED collection
    /\ UNCHANGED <<transformer, srcKind, sinkKind, streamLen, fmVars>>
    /\ UNCHANGED <<cancelled, runVars, srcVars, trVars, sinkVars, drainVars, startVars>>

\* The input of Write is closed (the pipeline shuts down): the range loop
\* ends and the remaining events are written, lines 84-89.
InputClosed ==
    /\ wrPc = "range"
    /\ ~inputClosed
    /\ inputClosed' = TRUE
    /\ wrPc' = IF batch # <<>> THEN "flush" ELSE "closed"
    /\ UNCHANGED <<collection, captured, batch, tableRows, received, flushed,
                   applied, sentErrors, dbFailures>>
    /\ UNCHANGED <<transformer, srcKind, sinkKind, streamLen, fmVars>>
    /\ UNCHANGED <<cancelled, runVars, srcVars, trVars, sinkVars, drainVars, startVars>>

\* Write calls writeBatch, lines 77-81 and 85-88.
WriteBatch ==
    /\ wrPc = "flush"
    /\ \E dbFails \in IF dbFailures < MaxErrors THEN BOOLEAN ELSE {FALSE} :
          LET events == [k \in 1..Len(batch) |-> captured[batch[k]].event]
              r == writeBatch(tableRows, events, dbFails)
          IN  /\ tableRows' = r.rows
              /\ dbFailures' = IF dbFails THEN dbFailures + 1 ELSE dbFailures
              /\ applied' = IF r.err THEN applied ELSE applied \o batch
              /\ wrPc' = IF r.err THEN "error" ELSE AfterBatch
    /\ flushed' = flushed + Len(batch)
    /\ batch' = <<>>
    /\ UNCHANGED <<collection, captured, inputClosed, received, sentErrors>>
    /\ UNCHANGED <<transformer, srcKind, sinkKind, streamLen, fmVars>>
    /\ UNCHANGED <<cancelled, runVars, srcVars, trVars, sinkVars, drainVars, startVars>>

\* The error of a failed batch is taken from Write's error stream by the
\* pipeline's drain worker, lines 78-79 and 86-87.
WriteErrorTaken ==
    /\ wrPc = "error"
    /\ sentErrors' = sentErrors + 1
    /\ wrPc' = AfterBatch
    /\ UNCHANGED <<collection, captured, inputClosed, batch, tableRows, received,
                   flushed, applied, dbFailures>>
    /\ UNCHANGED <<transformer, srcKind, sinkKind, streamLen, fmVars>>
    /\ UNCHANGED <<cancelled, runVars, srcVars, trVars, sinkVars, drainVars, startVars>>

SinkNext ==
    \/ ChangeCaptured
    \/ RecordReadAgain
    \/ InputClosed
    \/ WriteBatch
    \/ WriteErrorTaken

(***************************************************************************)
(* Spec: one Run of a Pipeline on its own, as the package's tests call it, *)
(* over every kind of Source and Sink.                                     *)
(***************************************************************************)
Init ==
    /\ PipeInit
    /\ streamLen = MaxEvents
    /\ mainPc = "run"
    /\ InitialSync = FALSE
    /\ ForceInitialSync = FALSE
    /\ TimestampField = ""
    /\ StartIdle
    /\ MapperIdle
    /\ SinkIdle

Next == Cancel \/ RunNext \/ WorkerNext

Spec == Init /\ [][Next]_vars

(***************************************************************************)
(* SpecMain: the whole process, from main's configuration to its exit,     *)
(* with the adapters main builds: the change-stream source, the draining   *)
(* sink and a transformer that is never nil.                               *)
(***************************************************************************)
InitMain ==
    /\ PipeInit
    /\ streamLen = MaxLive
    /\ transformer = "set"
    /\ srcKind = "stream"
    /\ sinkKind = "draining"
    /\ mainPc = "start"
    /\ InitialSync \in BOOLEAN
    /\ ForceInitialSync \in BOOLEAN
    /\ TimestampField \in {"", "updated_at"}
    /\ StartIdle
    /\ MapperIdle
    /\ SinkIdle

NextMain == Cancel \/ MainNext \/ BackfillNext \/ RunNext \/ WorkerNext

SpecMain == InitMain /\ [][NextMain]_vars

(***************************************************************************)
(* SpecMapper: a FieldMapper is built from a rule list and a policy, and   *)
(* Transform is called once on an event.  No pipeline runs.                *)
(***************************************************************************)
InitMapper ==
    /\ PipeInit
    /\ streamLen = 0
    /\ transformer = "set"
    /\ srcKind = "stream"
    /\ sinkKind = "draining"
    /\ mainPc = "start"
    /\ InitialSync = FALSE
    /\ ForceInitialSync = FALSE
    /\ TimestampField = ""
    /\ StartIdle
    /\ fmPc = "config"
    /\ Mappings \in MappingLists
    /\ IncludeAll \in BOOLEAN
    /\ ExcludeFields \in ExcludeLists
    /\ StrictMode \in BOOLEAN
    /\ extractors = EmptyMap
    /\ eventData = EmptyMap
    /\ newData = EmptyMap
    /\ errors = 0
    /\ ruleIdx = 0
    /\ wrote = {}
    /\ outcomes = <<>>
    /\ ruleData = EmptyMap
    /\ resultData = EmptyMap
    /\ eventFields = ZeroFields
    /\ resultFields = ZeroFields
    /\ transformErr = "none"
    /\ SinkIdle

SpecMapper == InitMapper /\ [][MapperNext]_vars

(***************************************************************************)
(* SpecNested: the FieldMapper with rules that read along a nested path,   *)
(* on events that hold nested documents.                                   *)
(***************************************************************************)
InitNested ==
    /\ PipeInit
    /\ streamLen = 0
    /\ transformer = "set"
    /\ srcKind = "stream"
    /\ sinkKind = "draining"
    /\ mainPc = "start"
    /\ InitialSync = FALSE
    /\ ForceInitialSync = FALSE
    /\ TimestampField = ""
    /\ StartIdle
    /\ fmPc = "config"
    /\ Mappings \in NestedMappingLists
    /\ IncludeAll \in BOOLEAN
    /\ ExcludeFields = {}
    /\ StrictMode \in BOOLEAN
    /\ extractors = EmptyMap
    /\ eventData = EmptyMap
    /\ newData = EmptyMap
    /\ errors = 0
    /\ ruleIdx = 0
    /\ wrote = {}
    /\ outcomes = <<>>
    /\ ruleData = EmptyMap
    /\ resultData = EmptyMap
    /\ eventFields = ZeroFields
    /\ resultFields = ZeroFields
    /\ transformErr = "none"
    /\ SinkIdle

SpecNested == InitNested /\ [][MapperNext]_vars

(***************************************************************************)
(* SpecExtract: the FieldMapper with rules that all have an extract        *)
(* pattern, one with a capture group and one without.                      *)
(***************************************************************************)
InitExtract ==
    /\ PipeInit
    /\ streamLen = 0
    /\ transformer = "set"
    /\ srcKind = "stream"
    /\ sinkKind = "draining"
    /\ mainPc = "start"
    /\ InitialSync = FALSE
    /\ ForceInitialSync = FALSE
    /\ TimestampField = ""
    /\ StartIdle
    /\ fmPc = "config"
    /\ Mappings \in ExtractMappingLists
    /\ IncludeAll \in BOOLEAN
    /\ ExcludeFields = {}
    /\ StrictMode \in BOOLEAN
    /\ extractors = EmptyMap
    /\ eventData = EmptyMap
    /\ newData = EmptyMap
    /\ errors = 0
    /\ ruleIdx = 0
    /\ wrote = {}
    /\ outcomes = <<>>
    /\ ruleData = EmptyMap
    /\ resultData = EmptyMap
    /\ eventFields = ZeroFields
    /\ resultFields = ZeroFields
    /\ transformErr = "none"
    /\ SinkIdle

SpecExtract == InitExtract /\ [][MapperNext]_vars

(***************************************************************************)
(* SpecSink: changes of a collection captured by the MongoDB source and    *)
(* written by PostgreSQLSink.Write, with a pipeline that has no            *)
(* transformer.  FairSpecSink adds that Write's worker and the drain of    *)
(* its error stream keep running; nothing makes the collection change or   *)
(* the pipeline shut down.                                                 *)
(***************************************************************************)
InitSink ==
    /\ PipeInit
    /\ streamLen = 0
    /\ transformer = "nil"
    /\ srcKind = "stream"
    /\ sinkKind = "draining"
    /\ mainPc = "start"
    /\ InitialSync = FALSE
    /\ ForceInitialSync = FALSE
    /\ TimestampField = ""
    /\ StartIdle
    /\ MapperIdle
    /\ collection = EmptyMap
    /\ captured = <<>>
    /\ inputClosed = FALSE
    /\ wrPc = "range"
    /\ batch = <<>>
    /\ tableRows = EmptyMap
    /\ received = 0
    /\ flushed = 0
    /\ applied = <<>>
    /\ sentErrors = 0
    /\ dbFailures = 0

SpecSink == InitSink /\ [][SinkNext]_vars

FairSpecSink == SpecSink /\ WF_vars(WriteBatch) /\ WF_vars(WriteErrorTaken)

(***************************************************************************)
(* FairSpec: Spec with the fairness the Go scheduler gives.  Every step    *)
(* the program itself can take is eventually taken when it stays enabled:  *)
(* the statements of Run, every hand-off whose two parties are ready,      *)
(* every close, and a cooperating Source's observation of ctx.Done().      *)
(* The environment is under no obligation: SourceStep (whether another     *)
(* change arrives or the stream ends) and Cancel carry no fairness.        *)
(***************************************************************************)
Fairness ==
    /\ WF_vars(RunNext)
    /\ WF_vars(SourceObserveCancel)
    /\ WF_vars(SourceSendEvent)
    /\ WF_vars(SourceSendError)
    /\ WF_vars(SourceCloseErrors)
    /\ WF_vars(SourceCloseEvents)
    /\ WF_vars(TransformApply)
    /\ WF_vars(TransformSend)
    /\ WF_vars(TransformClose)
    /\ WF_vars(SinkSendError)
    /\ WF_vars(SinkFinish)
    /\ WF_vars(SinkCloseErrors)
    /\ WF_vars(SourceDrainDone)
    /\ WF_vars(SinkDrainDone)

FairSpec == Spec /\ Fairness

(***************************************************************************)
(* Properties of Pipeline.Run.                                             *)
(***************************************************************************)
Returned == runPc = "returned"

BothConnected == srcConn = "ok" /\ sinkConn = "ok"

\* How often Close must have run on an adapter once Run has returned.
Owed(conn) == IF conn = "ok" THEN 1 ELSE 0

\* The events the Source has handed over so far, in order.
Emitted == [i \in 1..nEmitted |-> [id |-> i, tag |-> "raw"]]

\* What the Sink is owed for an emitted event: the event itself without a
\* Transformer, the Transformer's rewriting of it otherwise.
Expected(e) == IF transformer = "nil" THEN e ELSE [id |-> e.id, tag |-> "PREFIX_"]

Kept(e) == e.id \notin dropped

\* C1: Run returns a non-nil error if and only if Source.Connect or
\* Sink.Connect failed; whatever arrived on the error streams and whatever
\* the Transformer returned, a Run whose Connects succeeded returns nil.
RunErrorIffConnectFailed ==
    Returned =>
        /\ runErr \in {"nil", "err"}
        /\ (runErr = "err") <=> (srcConn = "fail" \/ sinkConn = "fail")

\* A Run that returned nil although both error streams carried an error and
\* a Transform failed.
RunNilDespiteErrors ==
    /\ Returned
    /\ runErr = "nil"
    /\ logged.source > 0
    /\ logged.sink > 0
    /\ dropped # {}

\* C2: at no time has Close run more often on an adapter than once after a
\* successful Connect, nor at all after a failed or missing one; and once
\* Run has returned, on any path, Close has run exactly once on each adapter
\* whose Connect succeeded.
ClosedExactlyTheConnected ==
    /\ calls.srcClose <= Owed(srcConn)
    /\ calls.sinkClose <= Owed(sinkConn)
    /\ Returned =>
         /\ calls.srcClose = Owed(srcConn)
         /\ calls.sinkClose = Owed(sinkConn)

\* A Run that returned after a failed Sink.Connect and closed its Source.
SourceClosedAfterSinkConnectFailed ==
    /\ Returned
    /\ sinkConn = "fail"
    /\ calls.srcClose = 1
    /\ calls.sinkClose = 0

\* The Source and the Sink keep their side of the cancellation contract.
Cooperating == srcKind \in {"select", "stream"} /\ sinkKind = "draining"

RunReturnedClosed ==
    /\ Returned
    /\ calls.srcClose = Owed(srcConn)
    /\ calls.sinkClose = Owed(sinkConn)

\* C3: once the context is cancelled during a Run whose Source observes the
\* cancellation and whose Sink drains its input, Run eventually returns, and
\* by then Close has run exactly once on each connected adapter (once on the
\* Source and once on the Sink when the cancellation came while streaming).
CancelLeadsToReturn ==
    (cancelled /\ runPc # "idle" /\ Cooperating) ~> RunReturnedClosed

\* A streaming Run that returned because its Source observed the
\* cancellation, both adapters closed once.
CancelledRunReturned ==
    /\ Returned
    /\ cancelled
    /\ sawCancel
    /\ BothConnected
    /\ calls.srcClose = 1
    /\ calls.sinkClose = 1

\* C4: the Sink never receives anything but the events the Source emitted,
\* in their order, each at most once; and when no Transform failed, a Run
\* that returned has handed every emitted event to the Sink exactly once,
\* unchanged without a Transformer and rewritten by it otherwise.
EveryEventWrittenOnce ==
    /\ Len(written) <= nEmitted
    /\ (dropped = {} =>
          \A i \in 1..Len(written) : written[i] = Expected(Emitted[i]))
    /\ (Returned /\ BothConnected /\ dropped = {} =>
          /\ Len(written) = nEmitted
          /\ \A i \in 1..nEmitted : written[i] = Expected(Emitted[i]))

\* A Run with a Transformer that returned after delivering a whole stream.
WholeStreamTransformed ==
    /\ Returned
    /\ transformer = "set"
    /\ dropped = {}
    /\ nEmitted = MaxEvents
    /\ Len(written) = MaxEvents

\* C5: an event whose Transform failed never reaches the Sink; the failure
\* does not make Run return an error; and a Run that returned has delivered
\* every other emitted event, the later ones included, transformed.
FailedTransformDropsOnlyThatEvent ==
    /\ \A i \in 1..Len(written) : written[i].id \notin dropped
    /\ (Returned /\ BothConnected =>
          /\ runErr = "nil"
          /\ written = [i \in 1..Len(SelectSeq(Emitted, Kept)) |->
                           Expected(SelectSeq(Emitted, Kept)[i])])

\* A Run that returned after dropping its first event and delivering a later one.
LaterEventDeliveredAfterDrop ==
    /\ Returned
    /\ 1 \in dropped
    /\ \E i \in 1..Len(written) : written[i].id > 1

\* C6: Read and Write are invoked at most once per Run and only after both
\* Connects succeeded; no Connect is invoked twice; after a failed
\* Source.Connect the Sink's Connect is never attempted; and a Run whose
\* Connect failed returns without having invoked Read or Write.
StreamingOnlyAfterBothConnects ==
    /\ calls.read <= 1
    /\ calls.write <= 1
    /\ calls.srcConnect <= 1
    /\ calls.sinkConnect <= 1
    /\ (calls.read > 0 \/ calls.write > 0 => BothConnected)
    /\ (srcConn = "fail" => calls.sinkConnect = 0)
    /\ (srcConn = "fail" \/ sinkConn = "fail" => calls.read = 0 /\ calls.write = 0)

\* A Run that returned after a failed Source.Connect.
ReturnedAfterSourceConnectFailed ==
    /\ Returned
    /\ srcConn = "fail"
    /\ calls.srcConnect = 1

\* Events handed over by the Source that are neither dropped by a failed
\* Transform nor taken by the Sink.
InFlight == nEmitted - Cardinality(dropped) - Len(written)

\* C7: with a Sink that never takes an event, at most one event is in
\* flight (the one the transform worker holds), however long the source
\* stream is: while the transform worker waits in its hand-off the Source
\* cannot hand over another event.
BlockingSinkBoundsInFlight ==
    sinkKind = "blocking" =>
        /\ written = <<>>
        /\ InFlight <= 1
        /\ (tPc = "send" => ~ENABLED SourceSendEvent)

\* The transform worker waits in its hand-off to a blocking Sink while the
\* Source waits to hand over the next event.
SourceBlockedBehindTransform ==
    /\ sinkKind = "blocking"
    /\ tPc = "send"
    /\ srcPc = "sendEvent"
    /\ nEmitted < streamLen

(***************************************************************************)
(* Properties of the startup sequence.                                     *)
(***************************************************************************)
\* performInitialSync has called PerformInitialSync.
BackfillStarted == bfSrcPc # "off"

\* The backfill read is bounded below by a cursor.
Incremental == Filtered(TimestampField, fromTimestamp)

\* C8: a backfill that runs is incremental exactly when force is false, the
\* cursor field is set, the sink table is not empty and the cursor lookup
\* returned a value, and its bound is then a value of the sink table; in
\* every other case it is full.  In particular an empty sink and force each
\* give a full backfill.
IncrementalOnlyWithCursor ==
    BackfillStarted =>
        /\ Incremental <=> /\ ~ForceInitialSync
                           /\ TimestampField # ""
                           /\ sinkTable # {}
                           /\ probes.lookup = "value"
        /\ (sinkTable = {} => ~Incremental)
        /\ (ForceInitialSync => ~Incremental)
        /\ (Incremental => fromTimestamp \in sinkTable)

\* An incremental backfill has started.
IncrementalBackfillStarted ==
    /\ BackfillStarted
    /\ Incremental
    /\ Cardinality(sinkTable) > 1

\* The cursor value of the i-th backfilled record.
EmittedTs(i) == docTs[bfEmitted[i]]

\* C9: in an incremental backfill the bound is the greatest cursor value of
\* the sink table, every record read has a cursor value at or above it, the
\* records are emitted in ascending order of that value, and a read that
\* ended without an error has emitted every record at or above the bound,
\* those equal to it included.
IncrementalReadsFromCursorAscending ==
    BackfillStarted /\ Incremental =>
        /\ \A r \in sinkTable : r # NoTimestamp /\ r[1] <= fromTimestamp[1]
        /\ fromTimestamp \in sinkTable
        /\ \A i \in 1..Len(bfEmitted) : EmittedTs(i) >= fromTimestamp[1]
        /\ \A i, j \in 1..Len(bfEmitted) : i < j => EmittedTs(i) <= EmittedTs(j)
        /\ (bfSrcPc = "done" /\ bfSrcErrs = 0 =>
              {bfEmitted[i] : i \in 1..Len(bfEmitted)} =
                  {d \in DOMAIN docTs : docTs[d] >= fromTimestamp[1]})

\* An incremental read that ended after emitting a record equal to the
\* cursor and then a later one.
ReadAgainFromCursor ==
    /\ Incremental
    /\ bfSrcPc = "done"
    /\ bfSrcErrs = 0
    /\ Len(bfEmitted) = 2
    /\ EmittedTs(1) = fromTimestamp[1]
    /\ EmittedTs(2) > fromTimestamp[1]

\* Errors that appeared on the two error streams of the backfill.
BackfillErrors == bfSrcErrs + bfSinkErrs

\* C10: once an error has appeared on the source's or the sink's error
\* stream during the backfill, performInitialSync does not return nil, main
\* does not go on to Pipeline.Run, and Run is never entered.
BackfillErrorStopsStartup ==
    BackfillErrors > 0 =>
        /\ syncErr # "nil"
        /\ (mainPc = "syncReturned" => syncErr = "err")
        /\ mainPc \notin {"run", "exit"}
        /\ runPc = "idle"

\* The process ended by a backfill whose sink reported a write error.
FatalAfterBackfillError ==
    /\ mainPc = "fatal"
    /\ bfSinkErrs > 0
    /\ bfSrcErrs = 0
    /\ Len(bfWritten) > 0

\* Pipeline.Run has been called, or main is at the call.
LiveCaptureStarted == runPc # "idle" \/ mainPc \in {"run", "exit"}

\* The ids of the backfilled events the sink has taken.
BackfillWrittenIds == {bfWritten[i].id : i \in 1..Len(bfWritten)}

\* Every worker of the backfill has ended and every backfilled event that
\* was not dropped by a failed Transform has been written.
BackfillOver ==
    /\ bfSrcPc = "done"
    /\ bfPending = {}
    /\ bfTPc = "done"
    /\ bfHeld = NoEvent
    /\ bfSinkPc = "done"
    /\ BackfillWrittenIds = {bfEmitted[i] : i \in 1..Len(bfEmitted)} \ bfDropped

\* C11: backfill and live capture never overlap: when the initial sync is
\* enabled, Pipeline.Run is called only after the backfill's read has ended,
\* its transform worker has finished and the sink has finished writing
\* every backfilled event.
BackfillBeforeLiveCapture ==
    InitialSync /\ LiveCaptureStarted => BackfillStarted /\ BackfillOver

\* Live capture streaming after a backfill that wrote two records.
LiveAfterBackfill ==
    /\ InitialSync
    /\ Len(bfWritten) = 2
    /\ runPc \notin {"idle", "returned"}
    /\ Len(written) > 0

\* The cursor lookup was made and failed.
LookupFailed == probes.lookup = "error"

\* C12: a failed cursor lookup (force false, cursor field set, sink not
\* empty) is not a failure of the initial sync: performInitialSync goes on
\* to a full backfill, and when that backfill produced no error it returns
\* nil, so that main goes on to Pipeline.Run.
FailedLookupFallsBackToFull ==
    LookupFailed =>
        /\ ~ForceInitialSync /\ TimestampField # "" /\ sinkTable # {}
        /\ (mainPc \notin {"syncStrategy", "syncRead"} => BackfillStarted)
        /\ ~Incremental
        /\ (BackfillErrors = 0 =>
              /\ syncErr # "err"
              /\ (mainPc = "fatal" => runErr = "err"))
        /\ (mainPc = "syncReturned" /\ BackfillErrors = 0 =>
              AfterSync(syncErr) = "run")

\* Live capture streaming after a failed lookup and a full backfill that
\* read a record below every value of the sink table.
LiveAfterFailedLookup ==
    /\ LookupFailed
    /\ NoTimestamp \notin sinkTable
    /\ \E i \in 1..Len(bfEmitted) : \A r \in sinkTable : EmittedTs(i) < r[1]
    /\ runPc = "wait"

\* C13: with the initial sync disabled no backfill runs: performInitialSync
\* is not entered, the sink's emptiness check and cursor lookup are never
\* made, the backfill read is never started, and main goes from its start
\* directly to Pipeline.Run.
DisabledSyncGoesStraightToRun ==
    ~InitialSync =>
        /\ probes.isEmpty = 0 /\ probes.latest = 0
        /\ ~BackfillStarted
        /\ bfEmitted = <<>> /\ bfWritten = <<>>
        /\ syncConn = [source |-> "none", sink |-> "none"]
        /\ syncErr = "none"
        /\ mainPc \in {"start", "run", "exit", "fatal"}
        /\ (mainPc = "fatal" => runErr = "err")
        /\ (mainPc = "start" => AfterStart(InitialSync) = "run")

\* Live capture has delivered an event with the initial sync disabled,
\* although force and a cursor field are configured.
LiveWithoutBackfill ==
    /\ ~InitialSync
    /\ ForceInitialSync
    /\ TimestampField # ""
    /\ Len(written) > 0

(***************************************************************************)
(* Properties of the FieldMapper.                                          *)
(***************************************************************************)
\* Transform has returned without an error.
TransformSucceeded == fmPc = "returned" /\ transformErr = "nil"

\* Transform has returned an error.
TransformFailed == fmPc = "returned" /\ transformErr = "err"

\* The pattern a mapping declares, as the only entry of an extractor map.
OwnExtractor(mapping) ==
    IF mapping.Extract = ""
    THEN EmptyMap
    ELSE Put(EmptyMap, mapping.Source, mapping.Extract)

\* The two rules of TestFieldMapperMultipleExtractFromSameSource, with the
\* destinations of DestinationNames: the user part goes to "email", the
\* domain to "name".
UserAndDomainRules ==
    <<[Source |-> "email", Destination |-> "", Format |-> "", Default |-> <<>>,
       Required |-> FALSE, Extract |-> UserPattern,
       NestedPath |-> NoPath],
      [Source |-> "email", Destination |-> "name", Format |-> "", Default |-> <<>>,
       Required |-> FALSE, Extract |-> DomainPattern,
       NestedPath |-> NoPath]>>

\* C14: each rule is extracted with its own extract pattern and a rule
\* without a pattern is not extracted at all, whatever other rules share
\* its source: every pass of the rule loop does what it would do with the
\* mapping's own pattern alone, and the user and domain rules applied to
\* "john.doe@example.com" yield "john.doe" and "example.com".
EachRuleExtractsWithOwnPattern ==
    /\ fmPc = "rules" /\ ruleIdx <= Len(Mappings) =>
          ApplyMapping(Mappings[ruleIdx], eventData, extractors, StrictMode)
            = ApplyMapping(Mappings[ruleIdx], eventData,
                           OwnExtractor(Mappings[ruleIdx]), StrictMode)
    /\ (/\ TransformSucceeded
        /\ Mappings = UserAndDomainRules
        /\ "email" \in DOMAIN eventData
        /\ eventData["email"] = StringValue(Email)) =>
          /\ {"email", "name"} \subseteq DOMAIN resultData
          /\ resultData["email"] = StringValue(<<"john.doe">>)
          /\ resultData["name"] = StringValue(<<"example.com">>)

\* C15: the include-all copy never overwrites a key a rule has produced:
\* every key the rule loop wrote is in the returned data with the value the
\* rule loop left under it.
IncludeAllKeepsRuleOutput ==
    TransformSucceeded =>
        \A k \in DOMAIN ruleData :
            k \in DOMAIN resultData /\ resultData[k] = ruleData[k]

\* C16: with includeAll set, no field name listed in excludeFields is a key
\* of the data Transform returns, for any event data and any rule list.
ExcludedFieldsNeverInOutput ==
    TransformSucceeded /\ IncludeAll =>
        \A k \in ExcludeFields : k \notin DOMAIN resultData

\* The i-th rule's source is absent from the event data or holds null.
NotFound(i) ==
    \/ Mappings[i].Source \notin DOMAIN eventData
    \/ eventData[Mappings[i].Source] = Null

\* Rule i is the only possible origin of its destination key: no rule that
\* wrote has the same destination and the include-all loop does not copy it.
OnlyOrigin(i) ==
    /\ \A j \in wrote : DestName(Mappings[j]) # DestName(Mappings[i])
    /\ ~(/\ IncludeAll
         /\ DestName(Mappings[i]) \in DOMAIN eventData
         /\ CopiesKey(DestName(Mappings[i]), Mappings, ExcludeFields))

\* Rule i has left no key in the returned data.
NoKeyFor(i) ==
    /\ i \notin wrote
    /\ (OnlyOrigin(i) => DestName(Mappings[i]) \notin DOMAIN resultData)

\* C17: when a required rule's value is not found, under strictMode
\* Transform returns an error and the returned data equals the input data;
\* without strictMode and with an empty default Transform returns no error
\* and the rule leaves no key in the output.
RequiredMissingStrictOrSkipped ==
    fmPc = "returned" =>
        \A i \in 1..Len(Mappings) :
            Mappings[i].Required /\ NotFound(i) =>
                /\ StrictMode => transformErr = "err" /\ resultData = eventData
                /\ (~StrictMode /\ Mappings[i].Default = <<>>) =>
                      transformErr = "nil" /\ NoKeyFor(i)

\* A strict Transform that wrote its first rule's key and returned an error
\* at its second, required, rule.
StrictAbortAfterFirstRule ==
    /\ TransformFailed
    /\ StrictMode
    /\ wrote = {1}
    /\ Len(Mappings) = 2
    /\ Mappings[2].Required /\ NotFound(2)
    /\ newData # eventData

\* Some rule names key k as its source.
IsRuleSource(k) == \E i \in 1..Len(Mappings) : Mappings[i].Source = k

\* C18: with includeAll, the returned data holds every key of the original
\* data that is neither a rule's source nor excluded, with its original
\* value; with includeAll, no mappings and no excluded fields Transform
\* returns no error and data equal to the input data.
IncludeAllCopiesUnmapped ==
    /\ TransformSucceeded /\ IncludeAll =>
          \A k \in DOMAIN eventData :
              ~IsRuleSource(k) /\ k \notin ExcludeFields =>
                  k \in DOMAIN resultData /\ resultData[k] = eventData[k]
    /\ (fmPc = "returned" /\ IncludeAll /\ Mappings = <<>> /\ ExcludeFields = {}) =>
          transformErr = "nil" /\ resultData = eventData

\* A rule wrote "name", and the returned data holds the original "name",
\* which is no rule's source.
OriginalValueKeptUnderRuleDestination ==
    /\ TransformSucceeded
    /\ IncludeAll
    /\ "name" \in DOMAIN ruleData
    /\ "name" \in DOMAIN eventData
    /\ ~IsRuleSource("name")
    /\ ruleData["name"] # eventData["name"]
    /\ resultData["name"] = eventData["name"]

\* The formatting of rule i's value failed.
FormatFailed(i) == i <= Len(outcomes) /\ outcomes[i].why = "format"

\* C19: a formatting error under strictMode makes Transform return an error
\* (with the input data), whether or not the rule is required; without
\* strictMode Transform returns no error, the failing rule leaves no key (its
\* default is not used instead), every other rule is still handled and the
\* keys the other rules wrote are in the output.
FormatErrorStrictOrSkipped ==
    fmPc = "returned" =>
        \A i \in 1..Len(Mappings) :
            FormatFailed(i) =>
                /\ StrictMode => transformErr = "err" /\ resultData = eventData
                /\ ~StrictMode =>
                      /\ transformErr = "nil"
                      /\ NoKeyFor(i)
                      /\ Len(outcomes) = Len(Mappings)
                      /\ \A j \in wrote : DestName(Mappings[j]) \in DOMAIN resultData

\* Without strictMode, the first rule failed to format a present address as
\* an int and has a default, and the second rule's key is in the output
\* while the first's is not.
FormatFailureSkippedOnlyThatRule ==
    /\ TransformSucceeded
    /\ ~StrictMode /\ ~IncludeAll
    /\ Len(Mappings) = 2
    /\ Mappings[1].Source = "email" /\ Mappings[1].Format = "int"
    /\ Mappings[1].Default # <<>> /\ Mappings[1].Extract = ""
    /\ "email" \in DOMAIN eventData /\ eventData["email"] = StringValue(Email)
    /\ FormatFailed(1)
    /\ wrote = {2}
    /\ DOMAIN resultData = {"name"}

\* The event data without key k.
WithoutKey(data, k) == [x \in DOMAIN data \ {k} |-> data[x]]

\* The empty string and the number zero.
EmptyString == StringValue(<<>>)

Zero == IntValue("0")

Ending(o) == [kind |-> o.kind, why |-> o.why, value |-> o.value]

\* C21: when a rule's value is not found and the rule is not required under
\* strictMode, a non-empty default becomes the rule's value: the pass ends
\* as it would for a present string equal to the default (extraction and
\* formatting included), and without extraction and format the default
\* itself is written under the rule's destination; with an empty default
\* the rule is skipped and leaves no key in the data Transform returns.
DefaultUsedWhenNotFound ==
    \A i \in 1..Len(outcomes) :
        LET m == Mappings[i]
        IN  NotFound(i) /\ ~(m.Required /\ StrictMode) =>
                /\ m.Default # <<>> =>
                      /\ outcomes[i] =
                            Ending(ApplyMapping(m, Put(eventData, m.Source,
                                                       StringValue(m.Default)),
                                                extractors, StrictMode))
                      /\ (m.Source \notin DOMAIN extractors /\ m.Format = "" =>
                            /\ outcomes[i].kind = "write"
                            /\ outcomes[i].value = StringValue(m.Default)
                            /\ i \in wrote)
                /\ m.Default = <<>> =>
                      /\ outcomes[i].kind = "skip"
                      /\ (TransformSucceeded => NoKeyFor(i))

\* A required rule without strictMode whose source is absent: its default
\* "7" went through the int format and is in the output as the number 7.
DefaultFormattedAndWritten ==
    /\ TransformSucceeded
    /\ ~StrictMode
    /\ Len(Mappings) = 1
    /\ Mappings[1].Required /\ Mappings[1].Format = "int"
    /\ Mappings[1].Default = <<"7">>
    /\ Mappings[1].Source \notin DOMAIN eventData
    /\ resultData = Put(EmptyMap, DestName(Mappings[1]), IntValue("7"))

\* What lies below the first k names of a path in the event data, as a
\* one-element sequence; empty when one of the names is missing or its
\* parent is not a document.
RECURSIVE Reached(_, _)
Reached(names, k) ==
    IF k = 0
    THEN <<MapValue(eventData)>>
    ELSE LET up == Reached(names, k - 1)
         IN  IF Len(up) = 1 /\ up[1].t = "map" /\ names[k] \in DOMAIN up[1].m
             THEN <<up[1].m[names[k]]>>
             ELSE <<>>

\* The leaf of rule i's nested path in the event data.
Leaf(i) ==
    LET names == Split(Mappings[i].NestedPath)
    IN  Reached(names, Len(names))

\* Rule i without its nested path.
Flat(i) == [Mappings[i] EXCEPT !.NestedPath = NoPath]

Constructed == fmPc \in {"ready", "rules", "includeAll", "returned"}

\* C23: NewFieldMapper fails whenever a rule's extract pattern is invalid:
\* a FieldMapper that exists holds no invalid pattern, in its rules or in its
\* extractors, a configuration with an invalid pattern never gets to a
\* Transform call, and every error Transform returns comes from the event (a
\* missing value, a pattern that does not match, a format that fails).
InvalidPatternFailsConstruction ==
    /\ Constructed =>
          /\ \A i \in 1..Len(Mappings) : Mappings[i].Extract # InvalidPattern
          /\ \A k \in DOMAIN extractors : extractors[k] # InvalidPattern
    /\ (\E i \in 1..Len(Mappings) : Mappings[i].Extract = InvalidPattern) =>
          /\ fmPc \in {"config", "failed"}
          /\ outcomes = <<>> /\ transformErr = "none"
    /\ TransformFailed =>
          outcomes[Len(outcomes)].why \in {"missing", "extract", "format"}

\* NewFieldMapper has failed on a rule list whose first pattern compiles and
\* whose second does not.
FailedOnSecondPattern ==
    /\ fmPc = "failed"
    /\ Len(Mappings) = 2
    /\ Mappings[1].Extract = UserPattern
    /\ Mappings[2].Extract = InvalidPattern
    /\ extractors = EmptyMap

\* The k-th applied event is the last applied one about its document that
\* is a delete: no insert, update or replace of that document was applied
\* after it.
DeletedLast(k) ==
    /\ captured[applied[k]].event.Operation = "delete"
    /\ \A j \in (k + 1)..Len(applied) :
          captured[applied[j]].key # captured[applied[k]].key

\* C24: a delete change that was captured, passed through the pipeline and
\* written in a committed batch has removed the record with its _id: the
\* target table has no row for a document whose last applied event is a
\* delete.
DeleteChangeRemovesRecord ==
    \A k \in 1..Len(applied) :
        DeletedLast(k) => captured[applied[k]].key \notin DOMAIN tableRows

\* Run is past wg.Wait(): it runs its deferred closes or has returned.
PastWait == runPc \in {"closeSink", "closeSource", "returned"}

\* A worker that Run started has ended; one that Run never started is "off".
Ended(pc) == pc \in {"off", "done"}

\* C25: once Run is past wg.Wait() (closing the connections, or returned),
\* the transform worker and both error drains have terminated and the
\* transform worker holds no event; when both connects succeeded all three
\* were started and are done.
RunReturnsAfterItsWorkers ==
    PastWait =>
        /\ Ended(tPc) /\ Ended(srcDrainPc) /\ Ended(sinkDrainPc)
        /\ tHeld = NoEvent
        /\ BothConnected =>
              tPc = "done" /\ srcDrainPc = "done" /\ sinkDrainPc = "done"

\* Run has returned after streaming every event, with all its workers done.
ReturnedAfterWorkersDone ==
    /\ Returned
    /\ BothConnected
    /\ Len(written) + Cardinality(dropped) = MaxEvents
    /\ tPc = "done" /\ srcDrainPc = "done" /\ sinkDrainPc = "done"

\* A worker is in the hand-off of an error to its error stream.
SourceErrorPending == srcPc \in {"sendError", "sendLastError"}

SinkErrorPending == sinkPc \in {"sendError", "sendLastError"}

\* The first k events the Source handed over have left the transform
\* worker: written to the Sink, or dropped by a failed Transform.
Settled(k) == Len(written) + Cardinality(dropped) >= k

\* C26: an error that the Source or the Sink is handing to its error
\* stream is eventually taken by its drain worker, whatever the state of
\* the event path (also with a Sink that takes no event), and with a Sink
\* that drains its input every event the Source hands over, also once
\* errors have been logged, eventually reaches the Sink unless its
\* Transform failed.
ErrorsDrainedEventsStillDelivered ==
    /\ SourceErrorPending ~> ~SourceErrorPending
    /\ SinkErrorPending ~> ~SinkErrorPending
    /\ \A k \in 1..MaxEvents :
          (sinkKind = "draining" /\ nEmitted >= k) ~> Settled(k)

\* The event path is blocked (the Sink takes no event, the transform worker
\* and the Source both wait in their hand-off) and a source error has been
\* consumed by the drain.
ErrorConsumedWhileEventsBlocked ==
    /\ sinkKind = "blocking"
    /\ tPc = "send"
    /\ srcPc = "sendEvent"
    /\ logged.source = 1
    /\ nSrcErr = 1

\* The process is over: main returned or logger.Fatalf ended it.
StartupOver == mainPc \in {"exit", "fatal"}

\* C27: over the whole startup sequence (backfill, then live capture) the
\* number of Close calls on an adapter equals the number of its successful
\* Connect calls, those of performInitialSync and those of Run, on every
\* exit path.
EveryConnectMatchedByClose ==
    StartupOver =>
        /\ calls.srcClose = Owed(syncConn.source) + Owed(srcConn)
        /\ calls.sinkClose = Owed(syncConn.sink) + Owed(sinkConn)

\* C28: every event Write has received is eventually passed to a writeBatch
\* call, whether or not further events arrive and whether or not the input
\* is ever closed.
EveryReceivedEventWritten ==
    \A k \in 1..MaxChanges : (received >= k) ~> (flushed >= k)

\* The operations the sink writes with insertEvent.
Upserts == {"insert", "update", "replace"}

\* C29: writing the same insert, update or replace event twice leaves the
\* target table as writing it once does, and the second write fails only
\* if the first did: for every event the source has emitted and the table
\* as it is, a second writeEvent changes nothing.
UpsertIsIdempotent ==
    \A k \in 1..Len(captured) :
        LET event == captured[k].event
            once == writeEvent(tableRows, event)
            twice == writeEvent(once.rows, event)
        IN  event.Operation \in Upserts =>
                twice.rows = once.rows /\ twice.err = once.err

\* A record was read again and both of its insert events were applied by
\* committed batches: the table holds one row for it, the record's.
ReadAgainRecordHasOneRow ==
    \E i, j \in 1..Len(applied) :
        /\ i < j
        /\ captured[applied[i]].event = captured[applied[j]].event
        /\ captured[applied[i]].event.Operation = "insert"
        /\ DOMAIN tableRows = {captured[applied[i]].key}
        /\ tableRows[captured[applied[i]].key] =
              RowOf(captured[applied[i]].event.Data)

\* The last rule, in declaration order, that wrote destination name d.
LastWriter(d) ==
    CHOOSE i \in wrote :
        /\ DestName(Mappings[i]) = d
        /\ \A j \in wrote : DestName(Mappings[j]) = d => j <= i

\* C30: every rule reads its value from the original data: its pass ends
\* as ApplyMapping on event.Data does, whatever earlier rules wrote; and a
\* destination written by several rules holds the value of the last of them
\* in declaration order, in the map the rule loop leaves and in the output
\* (where the include-all loop does not assign that key).
RulesReadOriginalLastWriterWins ==
    /\ \A i \in 1..Len(outcomes) :
          outcomes[i] = Ending(ApplyMapping(Mappings[i], eventData, extractors,
                                            StrictMode))
    /\ TransformSucceeded =>
          \A i \in wrote :
              LET d == DestName(Mappings[i])
                  v == outcomes[LastWriter(d)].value
              IN  /\ d \in DOMAIN ruleData /\ ruleData[d] = v
                  /\ ~(IncludeAll /\ d \in DOMAIN eventData
                         /\ CopiesKey(d, Mappings, ExcludeFields)) =>
                        d \in DOMAIN resultData /\ resultData[d] = v

\* Two rules write "name": the first the address under "email", the second
\* the original "name", although the first rule had written "name" before;
\* the output holds the second rule's value.
SecondRuleReadOriginalAndWon ==
    /\ TransformSucceeded
    /\ Len(Mappings) = 2
    /\ wrote = {1, 2}
    /\ Mappings[1].Source = "email" /\ Mappings[1].Destination = "name"
    /\ Mappings[2].Source = "name" /\ DestName(Mappings[2]) = "name"
    /\ outcomes[1].value = StringValue(Email)
    /\ outcomes[2].value = StringValue(<<"john">>)
    /\ resultData["name"] = StringValue(<<"john">>)

\* The string rule i's extraction is applied to: what the source's value
\* prints as, or the default when the value was not found.
ExtractInput(i) ==
    IF NotFound(i) THEN Mappings[i].Default ELSE eventData[Mappings[i].Source].v

\* Rule i's own pattern is the one applied to a value: the rule has one, it
\* is the one stored for its source, and the rule had a value or a default.
OwnPatternApplied(i) ==
    /\ Mappings[i].Extract # ""
    /\ Mappings[i].Source \in DOMAIN extractors
    /\ extractors[Mappings[i].Source] = Mappings[i].Extract
    /\ NotFound(i) =>
          /\ Mappings[i].Default # <<>>
          /\ ~(Mappings[i].Required /\ StrictMode)

\* C31: when a rule's extract pattern is applied to a value, a match of the
\* pattern with a capture group yields group 1 and a match of the pattern
\* without a group yields the whole match (written as it is when the rule
\* has no format); without a match the rule is skipped, its default not
\* used and no key left in the output, except that Transform returns an
\* error when the rule is required and strictMode is set.
ExtractionYieldsGroupOrWholeMatch ==
    \A i \in 1..Len(outcomes) :
        LET m == Mappings[i]
            matches == FindStringSubmatch(m.Extract, ExtractInput(i))
        IN  OwnPatternApplied(i) =>
              /\ (m.Extract = UserPattern /\ matches # <<>>) =>
                    /\ Len(matches) = 2
                    /\ m.Format = "" =>
                          /\ outcomes[i].kind = "write"
                          /\ outcomes[i].value = StringValue(matches[2])
              /\ (m.Extract = WholePattern /\ matches # <<>>) =>
                    /\ Len(matches) = 1
                    /\ m.Format = "" =>
                          /\ outcomes[i].kind = "write"
                          /\ outcomes[i].value = StringValue(matches[1])
              /\ matches = <<>> =>
                    /\ outcomes[i].why = "extract"
                    /\ outcomes[i].kind =
                          IF m.Required /\ StrictMode THEN "abort" ELSE "skip"
                    /\ outcomes[i].kind = "abort" => TransformFailed
                    /\ TransformSucceeded => NoKeyFor(i)

\* The group-less pattern wrote "@example.com" for the address under
\* "email"; the pattern with a group found no "@" in the "name" and its
\* rule, although it has a default, left no key.
WholeMatchWrittenNoMatchSkipped ==
    /\ TransformSucceeded
    /\ ~IncludeAll
    /\ Len(Mappings) = 2
    /\ Mappings[1].Source = "email" /\ Mappings[1].Extract = WholePattern
    /\ Mappings[1].Destination = ""
    /\ Mappings[2].Source = "name" /\ Mappings[2].Extract = UserPattern
    /\ Mappings[2].Destination = "name" /\ Mappings[2].Default = <<"7">>
    /\ "name" \in DOMAIN eventData /\ eventData["name"] = StringValue(<<"john">>)
    /\ resultData = Put(EmptyMap, "email", StringValue(<<"@", "example.com">>))

\* A step of a running Transform call leaves the event it was passed as it
\* is.
InputKept ==
    fmPc \in {"rules", "includeAll"} =>
        eventData' = eventData /\ eventFields' = eventFields

\* C32: Transform never modifies the data of the event passed to it (while
\* a call runs, the caller's data and fields stay as they were passed); the
\* event it returns has the id, timestamp, operation, source, database,
\* collection and before of the input, and with an error its data is the
\* input's data as well.
TransformLeavesInputAlone ==
    /\ [](fmPc = "returned" =>
            /\ resultFields = eventFields
            /\ transformErr = "err" => resultData = eventData)
    /\ [][InputKept]_vars

\* Transform returned without error an event whose data differs from the
\* input's and whose other fields are the input's.
NewDataSameFields ==
    /\ TransformSucceeded
    /\ resultData # eventData
    /\ eventData # EmptyMap
    /\ resultFields = eventFields
    /\ resultFields.ID = "e1"

\* C33: with strictMode false Transform never returns an error: every rule
\* is handled, each is written or skipped, a skipped rule (missing value,
\* failed extraction, failed format) leaves no key, and the rules that
\* wrote keep theirs.
NonStrictNeverFails ==
    (~StrictMode /\ fmPc = "returned") =>
        /\ transformErr = "nil"
        /\ Len(outcomes) = Len(Mappings)
        /\ \A i \in 1..Len(Mappings) :
              /\ outcomes[i].kind \in {"write", "skip"}
              /\ outcomes[i].kind = "skip" => NoKeyFor(i)
              /\ outcomes[i].kind = "write" =>
                    i \in wrote /\ DestName(Mappings[i]) \in DOMAIN resultData

\* Without strictMode a required rule's extraction failed and another
\* required rule's format failed; Transform returned no error and an
\* output without their keys.
TwoFailuresNoError ==
    /\ TransformSucceeded
    /\ ~StrictMode
    /\ ~IncludeAll
    /\ Len(Mappings) = 2
    /\ Mappings[1].Required /\ Mappings[2].Required
    /\ outcomes[1].why = "extract"
    /\ outcomes[2].why = "format"
    /\ errors = 1
    /\ resultData = EmptyMap

\* C34: the events the Sink's Write receives are in the order the Source
\* emitted them: the transform stage leaves out the events whose transform
\* failed and never reorders the others.
WrittenInEmissionOrder ==
    /\ \A i, j \in 1..Len(written) : i < j => written[i].id < written[j].id
    /\ \A i \in 1..Len(written) :
          /\ written[i].id \in 1..nEmitted
          /\ written[i].id \notin dropped

\* The second of three emitted events was dropped by the Transformer and
\* the Sink received the first and then the third.
SurvivorsKeepOrder ==
    /\ nEmitted = 3
    /\ dropped = {2}
    /\ Len(written) = 2
    /\ written[1].id = 1
    /\ written[2].id = 3

\* Both error streams are closed and every worker that feeds the Sink, the
\* Sink's write worker included, has terminated.
StreamsOver ==
    /\ sourceErrorsClosed
    /\ sinkErrorsClosed
    /\ srcPc = "done"
    /\ tPc = "done"
    /\ sinkPc = "done"

\* C35 as stated: whenever Close has been invoked on the Source or on the
\* Sink, both error streams are closed and the Sink's write worker has
\* finished, and the Source is closed only after the Sink.
CloseOnlyAfterErrorStreamsClosed ==
    /\ calls.srcClose + calls.sinkClose > 0 => StreamsOver
    /\ calls.srcClose > 0 => calls.sinkClose > 0

\* C35: in a Run whose two connects succeeded, Close is invoked on the Sink
\* and then on the Source only after both error streams are closed and the
\* write worker has finished; after a failed Sink connect Close is invoked
\* on the Source alone, and no stream was ever started.
CloseAfterStreamsWhenBothConnected ==
    /\ calls.sinkClose > 0 => BothConnected /\ StreamsOver
    /\ (calls.srcClose > 0 /\ sinkConn = "ok") =>
          StreamsOver /\ calls.sinkClose = 1
    /\ (calls.srcClose > 0 /\ sinkConn # "ok") =>
          /\ sinkConn = "fail"
          /\ calls.sinkClose = 0
          /\ srcPc = "off" /\ tPc = "off" /\ sinkPc = "off"
          /\ ~sourceErrorsClosed /\ ~sinkErrorsClosed

\* The Sink has been closed and the Source not yet, after a Run that wrote
\* events and logged an error from each side.
SinkClosedSourceStillOpen ==
    /\ runPc = "closeSource"
    /\ BothConnected
    /\ calls.sinkClose = 1
    /\ calls.srcClose = 0
    /\ Len(written) > 0
    /\ logged.source > 0
    /\ logged.sink > 0

\* Run is between the Sink's successful Connect and the Sink's deferred
\* close.
BetweenSinkConnectAndClose ==
    runPc \in {"read", "startTransform", "write", "startDrains", "wait",
               "closeSink"}

\* C36: sinkConnected implies sourceConnected; both flags are false before
\* Run is entered and after Run has returned, on every path; IsHealthy (and
\* the Healthy and PipelineRunning fields of GetStatus) is true exactly when
\* both flags are, which is from the Sink's successful Connect to its
\* deferred close.
SinkFlagImpliesSourceFlag ==
    /\ sinkConnected => sourceConnected
    /\ runPc \in {"idle", "returned"} => ~sourceConnected /\ ~sinkConnected
    /\ IsHealthy <=> (sourceConnected /\ sinkConnected)
    /\ IsHealthy <=> BetweenSinkConnectAndClose
    /\ GetStatus.Healthy = IsHealthy
    /\ GetStatus.PipelineRunning = IsHealthy
    /\ GetStatus.SourceConnected = sourceConnected
    /\ GetStatus.SinkConnected = sinkConnected

\* The Sink's deferred close has cleared sinkConnected while the Source is
\* still flagged connected: the pipeline is no longer healthy.
SourceFlagOutlivesSinkFlag ==
    /\ runPc = "closeSource"
    /\ BothConnected
    /\ sourceConnected
    /\ ~sinkConnected
    /\ ~IsHealthy
    /\ calls.sinkClose = 1

\* The ids of the records the backfill handed to the transform worker.
BackfillEmittedIds == {bfEmitted[i] : i \in 1..Len(bfEmitted)}

\* C37: a failed Transform on a backfilled record drops that record and
\* nothing else: the record is never written, every other emitted record
\* is written once the backfill's workers have ended, and the failure is
\* not a backfill error: errorOccurred is set only by an error of the
\* source's or the sink's error stream, and a backfill without such an
\* error returns nil, after which main starts Pipeline.Run (main ends
\* fatally before Run only after such an error).
TransformErrorDropsOnlyThatRecord ==
    /\ bfDropped \cap BackfillWrittenIds = {}
    /\ bfDropped \subseteq BackfillEmittedIds
    /\ errorOccurred => BackfillErrors > 0
    /\ (BackfillStarted /\ mainPc = "syncReturned") =>
          /\ syncErr = "err" <=> BackfillErrors > 0
          /\ BackfillWrittenIds = BackfillEmittedIds \ bfDropped
    /\ (BackfillStarted /\ mainPc = "fatal" /\ runPc = "idle") =>
          BackfillErrors > 0

\* The backfill dropped one of two records on a failed Transform, wrote the
\* other, returned nil, and live capture has started.
LiveCaptureAfterDroppedRecord ==
    /\ InitialSync
    /\ Len(bfEmitted) = 2
    /\ Cardinality(bfDropped) = 1
    /\ Len(bfWritten) = 1
    /\ ~errorOccurred
    /\ syncErr = "nil"
    /\ runPc \notin {"idle", "returned"}
    /\ Len(written) > 0

\* The sink's emptiness check was made and failed.
EmptyCheckFailed == probes.empty = "error"

\* performInitialSync is past its choice of strategy.
StrategyChosen ==
    mainPc \notin {"start", "syncConnectSource", "syncConnectSink", "syncStrategy"}
    /\ syncConn.source = "ok" /\ syncConn.sink = "ok"

\* C38: a failed emptiness check happens only with force false and a cursor
\* field; it makes performInitialSync return an error before the backfill
\* read is started, so no record is read, and main ends without calling
\* Pipeline.Run.  With force true or no cursor field the emptiness check is
\* never made; without force and with a cursor field it is made once.
EmptyCheckFailureAbortsStartup ==
    /\ EmptyCheckFailed =>
          /\ ~ForceInitialSync /\ TimestampField # ""
          /\ probes.isEmpty = 1 /\ probes.latest = 0
          /\ syncErr = "err"
          /\ mainPc \in {"syncReturned", "fatal"}
          /\ ~BackfillStarted
          /\ bfEmitted = <<>> /\ bfWritten = <<>>
          /\ ~LiveCaptureStarted
          /\ calls.srcConnect = 0 /\ calls.read = 0
    /\ (ForceInitialSync \/ TimestampField = "") =>
          probes.isEmpty = 0 /\ probes.empty = "none"
    /\ (InitialSync /\ StrategyChosen /\ ~ForceInitialSync /\ TimestampField # "") =>
          probes.isEmpty = 1 /\ probes.empty # "none"

\* The emptiness check failed and main has ended fatally: nothing was read
\* and Pipeline.Run was never entered.
FatalAfterFailedEmptyCheck ==
    /\ EmptyCheckFailed
    /\ mainPc = "fatal"
    /\ syncErr = "err"
    /\ runPc = "idle"
    /\ bfSrcPc = "off"

\* The table that the events of the committed batches give, written in
\* order to an empty table.
CommittedTable ==
    WriteEvents(EmptyMap, [k \in 1..Len(applied) |-> captured[applied[k]].event]).rows

\* A step in which writeBatch fails: the table and the committed events
\* stay as they were, the batch is emptied and its events count as
\* flushed, and the worker is left with one error to hand over.
FailedBatchDiscarded ==
    (wrPc = "flush" /\ wrPc' = "error") =>
        /\ tableRows' = tableRows
        /\ applied' = applied
        /\ batch' = <<>>
        /\ flushed' = flushed + Len(batch)
        /\ sentErrors' = sentErrors

\* A step that emits on the error stream emits one error, that of the
\* batch that just failed, and sends the worker back to its loop (or to
\* its end when the input is closed); the worker is handing over an error
\* only right after a failed batch.
OneErrorPerFailedBatch ==
    /\ sentErrors' # sentErrors =>
          /\ wrPc = "error"
          /\ sentErrors' = sentErrors + 1
          /\ wrPc' = AfterBatch
          /\ batch' = <<>> /\ tableRows' = tableRows /\ applied' = applied
    /\ (wrPc # "error" /\ wrPc' = "error") => wrPc = "flush"
    /\ (wrPc = "error" /\ wrPc' # "error") => sentErrors' = sentErrors + 1

\* C39: a failed writeBatch discards its whole batch: the table always
\* holds exactly what the committed batches wrote, the failed batch is
\* emptied and never written again (an event is in at most one batch, and
\* a flushed event is never in the current batch), exactly one error is
\* emitted for it, and the worker goes on with the events that follow.
FailedBatchDiscardedWhole ==
    /\ [](/\ tableRows = CommittedTable
          /\ \A k \in 1..Len(batch) : batch[k] > flushed
          /\ \A k \in 1..Len(applied) : applied[k] <= flushed
          /\ \A j, k \in 1..Len(applied) : j < k => applied[j] < applied[k]
          /\ wrPc = "error" => batch = <<>>)
    /\ [][FailedBatchDiscarded]_vars
    /\ [][OneErrorPerFailedBatch]_vars

\* The first batch failed and was discarded with one error; the two events
\* received afterwards were written in the next batch, and the table holds
\* what that batch wrote.
LaterBatchWrittenAfterFailure ==
    /\ flushed = 4
    /\ applied = <<3, 4>>
    /\ sentErrors = 1
    /\ wrPc \in {"range", "closed"}
    /\ tableRows # EmptyMap
    /\ tableRows = CommittedTable

====
